---------------------------- MODULE Spec2Model ----------------------------
(***************************************************************************)
(* A model of the catalog store (files, paths, duplicate_groups,           *)
(* statistics), of the filesystem the deduplication engine works on, and   *)
(* of the engine's run (Deduplicator.consolidate_files), one action per    *)
(* repository operation and per iteration of the engine's loops, and of    *)
(* the connection's retry policy (DatabaseConnection.retry_operation).     *)
(*                                                                         *)
(* Strings that the code slices or concatenates (hashes, file names,       *)
(* consolidated file names) are sequences of one-character strings.        *)
(***************************************************************************)
EXTENDS Integers, Sequences, FiniteSets, TLC

(***************************************************************************)
(* Bounds of the model.                                                    *)
(***************************************************************************)
MaxFiles == 3          \* original paths on disk, hence FileRecords
MaxRehash == 1         \* calls of update_file_hash that replace a recorded hash
MaxDeleted == 1        \* original files removed by hand

(***************************************************************************)
(* Values.                                                                 *)
(***************************************************************************)
NULL == 0              \* SQL NULL of an integer column (ids start at 1)
NoHash == <<>>         \* file_hash IS NULL (None and "" are both falsy)
NoPath == <<>>         \* None where the code expects a path

HashA == <<"a", "a", "b", "b">>
HashB == <<"a", "a", "b", "c">>
Hashes == {HashA, HashB}
Error == <<"E", "r", "r", "o", "r">>
Skipped == <<"S", "k", "i", "p", "p", "e", "d">>
Sentinels == {Error, Skipped}

\* The original paths, numbered in the order the scanner first meets them.
Paths == 1..MaxFiles

\* The file name of each original path (scanner: video_name = file_path.name).
\* Path 1 and the paths from 3 on differ only in a character that sanitising
\* replaces; path 2 bears the name that a numeric suffix gives theirs.
NameOf(p) ==
    IF p = 1 THEN <<"v", ":", ".", "m">>
    ELSE IF p = 2 THEN <<"v", "_", "_", "1", ".", "m">>
    ELSE <<"v", "_", ".", "m">>

\* The size in bytes of the file at each original path
\* (scanner: get_file_size_bytes(file_path)).  The fingerprint is taken of
\* three windows of a file, so files of different sizes can share a hash.
SizeOf(p) == IF p = 1 THEN 5 ELSE 7

\* How many directories deep below the scan root each original path lies:
\* root/year/month/month_day/project_name/ is four levels, path 3 lies in
\* nested sub-folders of its project folder.
DepthOf(p) == IF p = 3 THEN 20 ELSE 4

\* A path is the sequence of its components below the root; the consolidation
\* root is the scan root (main.py: consolidation_root defaults to scan_root),
\* and "dg" stands for its hidden directory .dg_consolidation.
ConsolidationBase == << <<"d", "g">>, <<"f", "i", "l", "e", "s">> >>
OrigDir(p) == [i \in 1..DepthOf(p) |-> <<"y", <<"0", "1", "2", "3", "4", "5">>[p + 1]>>]
OrigPath(p) == OrigDir(p) \o <<NameOf(p)>>

VARIABLES
    files,        \* table files: sequence of rows, the id is the index
    paths,        \* table paths: set of rows (file_id, path_type, path)
    groups,       \* table duplicate_groups: sequence of rows in id order
    statistics,   \* table statistics: stat_name -> stat_value
    orig,         \* disk: what each original path holds
    cdisk,        \* disk: the consolidated tree, path -> what it holds
    basedir,      \* disk: the directory consolidation_base exists
    run,          \* the engine run: position in consolidate_files
    stats,        \* Deduplicator.stats of the run
    store,        \* the connection and the call of retry_operation in progress
    rehashes      \* how many recorded hashes were replaced so far

vars ==
    <<files, paths, groups, statistics, orig, cdisk, basedir, run, stats,
      store, rehashes>>
db == <<files, paths, groups, statistics>>
fs == <<orig, cdisk, basedir>>

(***************************************************************************)
(* Helpers.                                                                *)
(***************************************************************************)
RECURSIVE SortAsc(_)
SortAsc(S) ==
    IF S = {} THEN <<>>
    ELSE LET m == CHOOSE x \in S : \A y \in S : x <= y
         IN  <<m>> \o SortAsc(S \ {m})

RECURSIVE SumSizes(_)
SumSizes(rows) ==
    IF rows = <<>> THEN 0
    ELSE files[Head(rows)].file_size_bytes + SumSizes(Tail(rows))

RECURSIVE ToStr(_)
ToStr(n) ==
    LET Digit(d) == <<"0", "1", "2", "3", "4", "5", "6", "7", "8", "9">>[d + 1]
    IN  IF n < 10 THEN <<Digit(n)>> ELSE ToStr(n \div 10) \o <<Digit(n % 10)>>

Ids == DOMAIN files
IdOfPath(p) == CHOOSE i \in Ids : files[i].original_path = p
GroupHashes == {groups[k].group_hash : k \in DOMAIN groups}
GroupOf(h) == groups[CHOOSE k \in DOMAIN groups : groups[k].group_hash = h]

(***************************************************************************)
(* The filesystem.  orig[p] is what original path p holds, cdisk[c] what   *)
(* path c of the consolidated tree holds: nothing, a file (with the        *)
(* original path its content came from) or a symbolic link (with its       *)
(* relative target text: so many ".." and then the components in down).    *)
(***************************************************************************)
Absent == [kind |-> "none"]
File(p) == [kind |-> "file", from |-> p]
Link(text) == [kind |-> "link", ups |-> text.ups, down |-> text.down]

DirName(path) == SubSeq(path, 1, Len(path) - 1)

RECURSIVE CommonPrefix(_, _)
CommonPrefix(s, t) ==
    IF s = <<>> \/ t = <<>> \/ Head(s) # Head(t) THEN 0
    ELSE 1 + CommonPrefix(Tail(s), Tail(t))

\* os.path.relpath(target, start)
relpath(target, start) ==
    LET n == CommonPrefix(target, start)
    IN  [ups |-> Len(start) - n, down |-> SubSeq(target, n + 1, Len(target))]

\* The path a link's text denotes, read from directory dir.
Follow(link, dir) ==
    IF link.ups > Len(dir) THEN NoPath
    ELSE SubSeq(dir, 1, Len(dir) - link.ups) \o link.down

\* Path.resolve() of a path of the consolidated tree: the file it leads to,
\* NoPath when it does not exist or its links dangle.
RECURSIVE ResolveC(_, _)
ResolveC(c, fuel) ==
    IF c \notin DOMAIN cdisk \/ fuel = 0 THEN NoPath
    ELSE IF cdisk[c].kind = "file" THEN c
    ELSE ResolveC(Follow(cdisk[c], DirName(c)), fuel - 1)

CResolve(c) == ResolveC(c, Cardinality(DOMAIN cdisk))
CExists(c) == CResolve(c) # NoPath

\* Path(original_path).exists(): a link counts when its target exists.
LinkTarget(p) == CResolve(Follow(orig[p], OrigDir(p)))
Exists(p) ==
    \/ orig[p].kind = "file"
    \/ orig[p].kind = "link" /\ LinkTarget(p) # NoPath

(***************************************************************************)
(* File repository.                                                        *)
(***************************************************************************)
NewFile(p, s) ==
    [original_path |-> p, file_name |-> NameOf(p), file_size_bytes |-> s,
     file_hash |-> NoHash, is_duplicate |-> FALSE, master_file_id |-> NULL,
     deduplication_status |-> "not_processed"]

\* INSERT OR REPLACE: the row of a known path is written anew.
replace_file(p, s) ==
    IF \E i \in Ids : files[i].original_path = p
    THEN [files EXCEPT ![IdOfPath(p)] = NewFile(p, s)]
    ELSE Append(files, NewFile(p, s))

\* INSERT ... ON CONFLICT(original_path) DO UPDATE SET file_name, size, ...
record_file(p, s) ==
    IF \E i \in Ids : files[i].original_path = p
    THEN [files EXCEPT ![IdOfPath(p)].file_name = NameOf(p),
                       ![IdOfPath(p)].file_size_bytes = s]
    ELSE Append(files, NewFile(p, s))

\* update_file_hash without the test of line 124.
store_any_hash(id, h) == [files EXCEPT ![id].file_hash = h]

update_file_hash(id, h) ==
    IF h = NoHash \/ h \in Sentinels
    THEN files
    ELSE [files EXCEPT ![id].file_hash = h]

\* mark_deduplicated without the UPDATE.
keep_status(fs0, id, status) == fs0

mark_deduplicated(fs0, id, status) ==
    [fs0 EXCEPT ![id].deduplication_status = status]

get_files_for_deduplication ==
    SortAsc({i \in Ids : files[i].deduplication_status = "not_processed"})

(***************************************************************************)
(* Path repository.                                                        *)
(***************************************************************************)
PathRow(id, type, path) == [file_id |-> id, path_type |-> type, path |-> path]

\* INSERT OR IGNORE under UNIQUE(file_id, path_type, path): a set union.
record_path(id, path, type) == paths \cup {PathRow(id, type, path)}
update_consolidated_path(id, c) == paths \cup {PathRow(id, "consolidated", c)}
update_symlink_path(id, path) == paths \cup {PathRow(id, "symlink", path)}

consolidated_path_exists(c) ==
    \E r \in paths : r.path_type = "consolidated" /\ r.path = c

\* SELECT path ... LIMIT 1
get_master_file_path(id) ==
    LET rows == {r \in paths : r.file_id = id /\ r.path_type = "consolidated"}
    IN  IF rows = {} THEN NoPath ELSE (CHOOSE r \in rows : TRUE).path

(***************************************************************************)
(* Duplicate repository.                                                   *)
(***************************************************************************)
RowsWithHash(h) == SortAsc({i \in Ids : files[i].file_hash = h})

\* A group row whose master is the newest record, not the oldest.
GroupRowNewest(h, rows) ==
    [group_hash |-> h,
     file_size_bytes |-> files[rows[1]].file_size_bytes,
     master_file_id |-> rows[Len(rows)],
     duplicate_count |-> Len(rows) - 1,
     total_size_bytes |-> SumSizes(rows),
     space_saved_bytes |-> SumSizes(rows) - files[rows[1]].file_size_bytes,
     deduplicated_at |-> FALSE]

GroupRow(h, rows) ==
    [group_hash |-> h,
     file_size_bytes |-> files[rows[1]].file_size_bytes,
     master_file_id |-> rows[1],
     duplicate_count |-> Len(rows) - 1,
     total_size_bytes |-> SumSizes(rows),
     space_saved_bytes |-> SumSizes(rows) - files[rows[1]].file_size_bytes,
     deduplicated_at |-> FALSE]

\* INSERT OR IGNORE: a row that exists is left as it is.
InsertGroupOnce(h, rows) ==
    IF h \in GroupHashes THEN groups ELSE Append(groups, GroupRow(h, rows))

\* INSERT OR REPLACE: the row is written anew, deduplicated_at NULL.
ReplaceGroup(h, rows) ==
    Append(SelectSeq(groups, LAMBDA g : g.group_hash # h), GroupRow(h, rows))

\* INSERT ... ON CONFLICT(group_hash) DO UPDATE SET the four recomputed columns
UpsertGroup(h, rows) ==
    LET new == GroupRow(h, rows)
    IN  IF h \in GroupHashes
        THEN [k \in DOMAIN groups |->
                IF groups[k].group_hash = h
                THEN [groups[k] EXCEPT
                        !.master_file_id = new.master_file_id,
                        !.duplicate_count = new.duplicate_count,
                        !.total_size_bytes = new.total_size_bytes,
                        !.space_saved_bytes = new.space_saved_bytes]
                ELSE groups[k]]
        ELSE Append(groups, new)

\* No DELETE FROM duplicate_groups.
KeepGroup(h) == groups

DeleteGroup(h) == SelectSeq(groups, LAMBDA g : g.group_hash # h)

ClearFlags(h) ==
    [i \in Ids |->
        IF files[i].file_hash = h
        THEN [files[i] EXCEPT !.is_duplicate = FALSE, !.master_file_id = NULL]
        ELSE files[i]]

SetFlags(rows) ==
    [i \in Ids |->
        IF \E k \in DOMAIN rows : rows[k] = i
        THEN [files[i] EXCEPT
                !.is_duplicate = (i # rows[1]),
                !.master_file_id = IF i = rows[1] THEN NULL ELSE rows[1]]
        ELSE files[i]]

handle_duplicate_hash(h) ==
    IF h = NoHash \/ h \in Sentinels
    THEN UNCHANGED <<files, groups>>
    ELSE LET rows == RowsWithHash(h)
         IN  IF Len(rows) <= 1
             THEN /\ groups' = DeleteGroup(h)
                  /\ files' = ClearFlags(h)
             ELSE /\ groups' = UpsertGroup(h, rows)
                  /\ files' = SetFlags(rows)

get_duplicate_group_files(h) == RowsWithHash(h)

get_duplicate_groups_for_processing ==
    SelectSeq(groups, LAMBDA g : g.duplicate_count > 0)

update_group_deduplicated(h) ==
    [k \in DOMAIN groups |->
        IF groups[k].group_hash = h
        THEN [groups[k] EXCEPT !.deduplicated_at = TRUE]
        ELSE groups[k]]

(***************************************************************************)
(* Statistics repository.                                                  *)
(***************************************************************************)
\* int(row["stat_value"]) of a value written as str(value)
RECURSIVE ParseInt(_)
ParseInt(str) ==
    LET Value(ch) == CHOOSE d \in 0..9 : ToStr(d) = <<ch>>
    IN  IF Len(str) = 1 THEN Value(str[1])
        ELSE 10 * ParseInt(SubSeq(str, 1, Len(str) - 1)) + Value(str[Len(str)])

\* _get_stat_value that finds no row.
no_stat_value(name, default) == default

get_stat_value(name, default) ==
    IF name \in DOMAIN statistics THEN ParseInt(statistics[name]) ELSE default

\* update_statistics: the aggregates are recomputed, the engine's counters are
\* read back and written again.  (space_saved_percentage and
\* last_scan_timestamp, a quotient and a clock value, are left out.)
update_statistics ==
    LET all == SortAsc(Ids)
        duplicate_files == Cardinality({i \in Ids : files[i].is_duplicate})
        saved == [k \in DOMAIN groups |-> groups[k].space_saved_bytes]
        SumSaved[k \in 0..Len(groups)] ==
            IF k = 0 THEN 0 ELSE saved[k] + SumSaved[k - 1]
    IN  [total_files |-> ToStr(Len(files)),
         total_size_bytes |-> ToStr(SumSizes(all)),
         unique_files |-> ToStr(Len(files) - duplicate_files),
         duplicate_files |-> ToStr(duplicate_files),
         duplicate_groups |-> ToStr(Len(get_duplicate_groups_for_processing)),
         space_saved_bytes |-> ToStr(SumSaved[Len(groups)]),
         files_deduplicated |-> ToStr(get_stat_value("files_deduplicated", 0)),
         symlinks_created |-> ToStr(get_stat_value("symlinks_created", 0)),
         files_consolidated |-> ToStr(get_stat_value("files_consolidated", 0))]
        @@ statistics

\* An upsert that adds to the stored value: stat_value + excluded.stat_value.
add_deduplication_statistics(files_consolidated, symlinks_created, files_deduplicated) ==
    [files_consolidated |->
        ToStr(get_stat_value("files_consolidated", 0) + files_consolidated),
     symlinks_created |->
        ToStr(get_stat_value("symlinks_created", 0) + symlinks_created),
     files_deduplicated |->
        ToStr(get_stat_value("files_deduplicated", 0) + files_deduplicated)]
        @@ statistics

\* INSERT ... ON CONFLICT(stat_name) DO UPDATE SET stat_value = excluded.stat_value
update_deduplication_statistics(files_consolidated, symlinks_created, files_deduplicated) ==
    [files_consolidated |-> ToStr(files_consolidated),
     symlinks_created |-> ToStr(symlinks_created),
     files_deduplicated |-> ToStr(files_deduplicated)] @@ statistics

(***************************************************************************)
(* Deduplicator: consolidated paths.                                       *)
(***************************************************************************)
ProblematicChars == {"<", ">", ":", "\"", "|", "?", "*"}
MaxNameLen == 200

\* os.path.splitext: the extension starts at the last dot that follows a
\* character other than a dot.
SplitAt(name) ==
    LET dots == {i \in 2..Len(name) :
                    name[i] = "." /\ \E j \in 1..(i - 1) : name[j] # "."}
    IN  IF dots = {} THEN Len(name) + 1
        ELSE CHOOSE i \in dots : \A j \in dots : j <= i
NamePart(name) == SubSeq(name, 1, SplitAt(name) - 1)
ExtPart(name) == SubSeq(name, SplitAt(name), Len(name))

sanitize_filename(filename) ==
    LET sanitized == [i \in DOMAIN filename |->
                        IF filename[i] \in {"/", "\\"} \cup ProblematicChars
                        THEN "_" ELSE filename[i]]
        ext == ExtPart(sanitized)
    IN  IF Len(sanitized) > MaxNameLen
        THEN SubSeq(NamePart(sanitized), 1, MaxNameLen - Len(ext)) \o ext
        ELSE sanitized

\* The while loop of _get_consolidated_path: the first candidate that neither
\* exists on disk nor is registered as a consolidated path.
Candidate(dir, base_filename, counter) ==
    IF counter = 0 THEN dir \o <<base_filename>>
    ELSE dir \o <<NamePart(base_filename) \o <<"_">> \o ToStr(counter)
                    \o ExtPart(base_filename)>>

\* A loop condition that finds no candidate taken.
NeverTaken(c) == FALSE

IsTaken(c) == CExists(c) \/ consolidated_path_exists(c)

RECURSIVE FirstFree(_, _, _)
FirstFree(dir, base_filename, counter) ==
    IF IsTaken(Candidate(dir, base_filename, counter))
    THEN FirstFree(dir, base_filename, counter + 1)
    ELSE Candidate(dir, base_filename, counter)

get_consolidated_path(file_hash, file_name) ==
    LET usable == ~(file_hash = NoHash \/ file_hash \in Sentinels)
        hash_prefix1 == IF usable THEN SubSeq(file_hash, 1, 2) ELSE <<"0", "0">>
        hash_prefix2 == IF usable THEN SubSeq(file_hash, 3, 4) ELSE <<"0", "0">>
        hash_part == IF usable THEN file_hash
                     ELSE <<"n", "o", "_", "h", "a", "s", "h">>
        base_filename == hash_part \o <<"_">> \o sanitize_filename(file_name)
    IN  FirstFree(ConsolidationBase \o <<hash_prefix1, hash_prefix2>>,
                  base_filename, 0)

(***************************************************************************)
(* Deduplicator: the run.  run.mode is the position in consolidate_files:  *)
(* "unique" in the loop over unique files, "groups" in the loop over       *)
(* duplicate groups (run.group set while inside one group), and outside a  *)
(* run "idle", "done" (returned after the loops) or "aborted" (returned by *)
(* a failed pre-flight check).  A killed process leaves no run: "idle".    *)
(***************************************************************************)
IdleRun ==
    [mode |-> "idle", dry_run |-> FALSE, second |-> FALSE, before |-> <<>>,
     preview |-> <<>>,
     unique_files |-> <<>>, duplicate_groups |-> <<>>,
     group |-> NoHash, master_path |-> NoPath, members |-> <<>>]

NoStats ==
    [files_consolidated |-> 0, symlinks_created |-> 0,
     files_deduplicated |-> 0, errors |-> <<>>]

Running == run.mode \in {"unique", "groups"}
CrashedRun == IdleRun

WithError(kind, id) == [stats EXCEPT !.errors = Append(@, <<kind, id>>)]

\* The query of _get_unique_files with LIMIT 1.
get_first_unique_file ==
    LET rows == SortAsc({i \in Ids : /\ files[i].deduplication_status = "not_processed"
                                     /\ ~files[i].is_duplicate
                                     /\ files[i].master_file_id = NULL})
    IN  IF rows = <<>> THEN <<>> ELSE <<rows[1]>>

get_unique_files ==
    SortAsc({i \in Ids : /\ files[i].deduplication_status = "not_processed"
                         /\ ~files[i].is_duplicate
                         /\ files[i].master_file_id = NULL})

PendingBytes == SumSizes(get_files_for_deduplication)

\* consolidate_files without the return of line 48: the loops start whatever
\* the checks said.
StartRunAnyway(dry, preflight) ==
    /\ ~Running
    /\ preflight = "declined" => PendingBytes > 0
    /\ stats' = NoStats
    /\ run' = [IdleRun EXCEPT
                  !.mode = "unique", !.dry_run = dry,
                  !.second = run.mode = "done" /\ ~run.dry_run /\ ~dry,
                  !.before = IF dry THEN <<>> ELSE statistics,
                  !.unique_files = get_unique_files]
    /\ basedir' = IF preflight = "not writable" THEN basedir ELSE TRUE
    /\ UNCHANGED <<db, orig, cdisk, rehashes, store>>

\* consolidate_files up to the first loop: the pre-flight checks, whose
\* outcome the disk and the operator decide, and the query of unique files.
\* The checks make the directory consolidation_base and write and remove a
\* test file in it, in a dry run too; "not writable" is the outcome where
\* that raises.
StartRun(dry, preflight) ==
    /\ ~Running
    /\ preflight = "declined" => PendingBytes > 0
    /\ stats' = NoStats
    /\ IF preflight = "ok"
       THEN LET second == run.mode = "done" /\ ~run.dry_run /\ ~dry
            IN  run' = [IdleRun EXCEPT
                          !.mode = "unique", !.dry_run = dry,
                          !.second = second,
                          !.before = IF dry THEN <<>> ELSE statistics,
                          !.unique_files = get_unique_files]
       ELSE run' = [IdleRun EXCEPT !.mode = "aborted"]
    /\ basedir' = IF preflight = "not writable" THEN basedir ELSE TRUE
    /\ UNCHANGED <<db, orig, cdisk, rehashes, store>>

\* The operator runs the engine for real right after a dry run has returned
\* (main.py: the same command without --dry-run): consolidate_files with
\* passing checks, from the catalog and the files that the dry run started
\* from.  run.preview keeps what the dry run returned.
RunAfterPreview ==
    /\ run.mode = "done" /\ run.dry_run
    /\ stats' = NoStats
    /\ run' = [IdleRun EXCEPT
                  !.mode = "unique",
                  !.before = statistics,
                  !.preview = <<stats>>,
                  !.unique_files = get_unique_files]
    /\ basedir' = TRUE
    /\ UNCHANGED <<db, orig, cdisk, rehashes, store>>

\* A copy in place of the move: the original stays where it was.
CopyOnly(p, c) ==
    /\ orig' = orig
    /\ cdisk' = (c :> orig[p]) @@ cdisk
    /\ basedir' = TRUE

\* shutil.move(original_path, consolidated_path): a rename, which replaces
\* whatever the target held.  consolidated_path.parent.mkdir(parents=True)
\* comes before it.
Move(p, c) ==
    /\ orig' = [orig EXCEPT ![p] = Absent]
    /\ cdisk' = (c :> orig[p]) @@ cdisk
    /\ basedir' = TRUE

\* The non-dry branch of _consolidate_unique_file and _consolidate_master_file:
\* move, record the path, mark the record.  halt names the write after which
\* the process is killed ("none": it is not).  With halt = "move failed" the
\* callers take the except branch instead: mkdir or shutil.move raised, the
\* error is recorded and the run goes on.
MoveAndRecord(id, c, halt, counted, next) ==
    /\ Move(files[id].original_path, c)
    /\ paths' = IF halt = "moved" THEN paths ELSE update_consolidated_path(id, c)
    /\ files' = IF halt = "none" THEN mark_deduplicated(files, id, "deduplicated")
                ELSE files
    /\ stats' = IF halt = "none"
                THEN [stats EXCEPT !.files_consolidated = @ + 1,
                                   !.files_deduplicated = @ + counted]
                ELSE NoStats
    /\ run' = IF halt = "none" THEN next ELSE CrashedRun

\* One iteration of the loop over unique_files: _consolidate_unique_file.
consolidate_unique_file(halt) ==
    /\ run.mode = "unique" /\ run.unique_files # <<>>
    /\ LET id == Head(run.unique_files)
           file_row == files[id]
           next == [run EXCEPT !.unique_files = Tail(@)]
       IN  IF ~Exists(file_row.original_path)
           THEN /\ halt = "none"
                /\ stats' = WithError("File not found", id)
                /\ run' = next
                /\ UNCHANGED <<files, paths, fs>>
           ELSE IF run.dry_run
           THEN /\ halt = "none"
                /\ stats' = [stats EXCEPT !.files_consolidated = @ + 1,
                                          !.files_deduplicated = @ + 1]
                /\ run' = next
                /\ UNCHANGED <<files, paths, fs>>
           ELSE IF halt = "move failed"
           THEN /\ stats' = WithError("Error consolidating", id)
                /\ run' = next
                /\ UNCHANGED <<files, paths, fs>>
           ELSE MoveAndRecord(
                    id,
                    get_consolidated_path(file_row.file_hash, file_row.file_name),
                    halt, 1, next)
    /\ UNCHANGED <<groups, statistics, rehashes, store>>

\* After the first loop: the query of the duplicate groups.
BeginGroups ==
    /\ run.mode = "unique" /\ run.unique_files = <<>>
    /\ run' = [run EXCEPT !.mode = "groups",
                          !.duplicate_groups = get_duplicate_groups_for_processing]
    /\ UNCHANGED <<db, fs, stats, rehashes, store>>

\* The head of one iteration of the loop over duplicate_groups, up to the
\* loop over the group's files: the group is skipped, or its master is found
\* consolidated or is consolidated (_consolidate_master_file).
EnterGroup(halt) ==
    /\ run.mode = "groups" /\ run.group = NoHash /\ run.duplicate_groups # <<>>
    /\ LET group == Head(run.duplicate_groups)
           group_files == get_duplicate_group_files(group.group_hash)
           master == group.master_file_id
           skip == [run EXCEPT !.duplicate_groups = Tail(@)]
           enter(c) ==
               [run EXCEPT
                  !.group = group.group_hash, !.master_path = c,
                  !.members = SelectSeq(group_files, LAMBDA i :
                      /\ i # master
                      /\ files[i].deduplication_status = "not_processed")]
           existing_path == get_master_file_path(master)
       IN  IF \/ group.deduplicated_at
              \/ group_files = <<>>
              \/ ~\E k \in DOMAIN group_files : group_files[k] = master
           THEN /\ halt = "none"
                /\ run' = skip
                /\ UNCHANGED <<files, paths, fs, stats>>
           ELSE IF existing_path # NoPath /\ CExists(existing_path)
           THEN /\ halt = "none"
                /\ run' = enter(existing_path)
                /\ UNCHANGED <<files, paths, fs, stats>>
           ELSE IF ~Exists(files[master].original_path)
           THEN /\ halt = "none"
                /\ stats' = WithError("Master file not found", master)
                /\ run' = skip
                /\ UNCHANGED <<files, paths, fs>>
           ELSE LET c == get_consolidated_path(files[master].file_hash,
                                               files[master].file_name)
                IN  IF run.dry_run
                    THEN /\ halt = "none"
                         /\ stats' = [stats EXCEPT !.files_consolidated = @ + 1]
                         /\ run' = enter(c)
                         /\ UNCHANGED <<files, paths, fs>>
                    ELSE IF halt = "move failed"
                    THEN /\ stats' = WithError("Error consolidating master",
                                               master)
                         /\ run' = skip
                         /\ UNCHANGED <<files, paths, fs>>
                    ELSE MoveAndRecord(master, c, halt, 0, enter(c))
    /\ UNCHANGED <<groups, statistics, rehashes, store>>

MaxUps == 20

\* The depth check with > in place of >=.
too_deep_gt(relative_path) == relative_path.ups > MaxUps

\* relative_path.count('..') >= 20
too_deep(relative_path) == relative_path.ups >= MaxUps

\* One iteration of the loop over the group's files:
\* _create_symlink_for_duplicate.  halt names the step after which the process
\* is killed: "unlinked", "linked" or "recorded" (the symlink path is), or
\* the call that raises: "unresolvable" (resolve() or os.path.relpath) or
\* "link denied" (symlink_to, after unlink() removed the original).
create_symlink_for_duplicate(halt) ==
    /\ run.mode = "groups" /\ run.group # NoHash /\ run.members # <<>>
    /\ LET id == Head(run.members)
           p == files[id].original_path
           master_path == run.master_path
           next == [run EXCEPT !.members = Tail(@)]
           original_path_resolved ==
               IF orig[p].kind = "link" THEN LinkTarget(p)
               ELSE OrigPath(p)
           relative_path == relpath(CResolve(master_path),
                                    DirName(original_path_resolved))
       IN  IF ~CExists(master_path)
           THEN /\ halt = "none"
                /\ stats' = WithError("Master file not found at", id)
                /\ run' = next
                /\ UNCHANGED <<files, paths, fs>>
           ELSE IF ~Exists(p)
           THEN /\ halt = "none"
                /\ files' = IF run.dry_run THEN files
                            ELSE mark_deduplicated(files, id, "deduplicated")
                /\ run' = next
                /\ UNCHANGED <<paths, fs, stats>>
           ELSE IF run.dry_run
           THEN /\ halt = "none"
                /\ stats' = [stats EXCEPT !.symlinks_created = @ + 1,
                                          !.files_deduplicated = @ + 1]
                /\ run' = next
                /\ UNCHANGED <<files, paths, fs>>
           ELSE IF halt = "unresolvable"
           THEN /\ stats' = WithError("Cannot resolve paths", id)
                /\ run' = next
                /\ UNCHANGED <<files, paths, fs>>
           ELSE IF too_deep(relative_path)
           THEN /\ halt = "none"
                /\ stats' = WithError("Relative path too deep", id)
                /\ run' = next
                /\ UNCHANGED <<files, paths, fs>>
           ELSE IF halt = "link denied"
           THEN /\ orig' = [orig EXCEPT ![p] = Absent]
                /\ stats' = WithError("Error creating symlink", id)
                /\ run' = next
                /\ UNCHANGED <<files, paths, cdisk, basedir>>
           ELSE /\ orig' = [orig EXCEPT ![p] =
                              IF halt = "unlinked" THEN Absent
                              ELSE Link(relative_path)]
                /\ paths' = IF halt \in {"none", "recorded"}
                            THEN update_symlink_path(id, OrigPath(p)) ELSE paths
                /\ files' = IF halt = "none"
                            THEN mark_deduplicated(files, id, "deduplicated")
                            ELSE files
                /\ stats' = IF halt = "none"
                            THEN [stats EXCEPT !.symlinks_created = @ + 1,
                                               !.files_deduplicated = @ + 1]
                            ELSE NoStats
                /\ run' = IF halt = "none" THEN next ELSE CrashedRun
                /\ UNCHANGED <<cdisk, basedir>>
    /\ UNCHANGED <<groups, statistics, rehashes, store>>

\* The end of one iteration of the loop over duplicate_groups.
LeaveGroup ==
    /\ run.mode = "groups" /\ run.group # NoHash /\ run.members = <<>>
    /\ groups' = IF run.dry_run THEN groups
                 ELSE update_group_deduplicated(run.group)
    /\ run' = [run EXCEPT !.duplicate_groups = Tail(@), !.group = NoHash,
                          !.master_path = NoPath]
    /\ UNCHANGED <<files, paths, statistics, fs, stats, rehashes, store>>

\* After the second loop: the counters are persisted and the run returns.
FinishRun ==
    /\ run.mode = "groups" /\ run.group = NoHash /\ run.duplicate_groups = <<>>
    /\ statistics' = IF run.dry_run THEN statistics
                     ELSE update_deduplication_statistics(
                              stats.files_consolidated, stats.symlinks_created,
                              stats.files_deduplicated)
    /\ run' = [run EXCEPT !.mode = "done"]
    /\ UNCHANGED <<files, paths, groups, fs, stats, rehashes, store>>

\* An exit status that ignores the error list.
exit_success(errors) == 0

\* main: return 0 if not stats['errors'] else 1
exit_status(errors) == IF errors = <<>> THEN 0 ELSE 1

\* The process is killed between two iterations.
Crash ==
    /\ Running
    /\ run' = CrashedRun
    /\ stats' = NoStats
    /\ UNCHANGED <<db, fs, rehashes, store>>

(***************************************************************************)
(* The connection and the retry policy (DatabaseConnection).  The four     *)
(* repositories are built with the connection that CatalogDatabase         *)
(* received and keep it; reconnect() closes that connection and opens a    *)
(* new one that only DatabaseConnection.conn refers to.  sqlite3 opens a   *)
(* transaction at the first write of a unit of work; it stays open, with   *)
(* the writes made, when the unit of work raises before its commit, and    *)
(* closing the connection rolls it back.  files and groups are the tables  *)
(* as the repositories' connection reads them; store.durable is what the   *)
(* database file holds while that connection has a transaction open.       *)
(***************************************************************************)
max_retries == 5

\* What an invocation of the unit of work raises: whether the exception is a
\* sqlite3.OperationalError or sqlite3.DatabaseError, and its text.
Locked == [sqlite |-> TRUE, text |-> "database is locked"]
UnableToOpen == [sqlite |-> TRUE, text |-> "unable to open database file"]
Malformed == [sqlite |-> TRUE, text |-> "database disk image is malformed"]
NoSuchTable == [sqlite |-> TRUE, text |-> "no such table: files"]
Constraint == [sqlite |-> TRUE, text |-> "unique constraint failed"]
ClosedHandle == [sqlite |-> TRUE, text |-> "cannot operate on a closed database."]
LogicError == [sqlite |-> FALSE, text |-> "unsupported operand type(s)"]
ConnectionRelated == [sqlite |-> FALSE, text |-> "database handle is gone"]
Failures ==
    {Locked, UnableToOpen, Malformed, NoSuchTable, Constraint, LogicError,
     ConnectionRelated}
Ok == [sqlite |-> FALSE, text |-> ""]

\* "unable to open database file" in error_str, and the like: the texts that
\* hold the substring.
Mentions(sub) ==
    CASE sub = "unable to open database file" -> {UnableToOpen.text}
      [] sub = "database is locked" -> {Locked.text}
      [] sub = "database disk image is malformed" -> {Malformed.text}
      [] sub = "no such table" -> {NoSuchTable.text}
      [] sub = "unable to open" -> {UnableToOpen.text}
      [] sub = "database" ->
            {Locked.text, UnableToOpen.text, Malformed.text,
             ClosedHandle.text, ConnectionRelated.text}

\* The classification that retries every failure.
retry_everything(e) == TRUE

\* Whether the loop goes on after exception e: is_retryable of the first
\* except clause, the test of the text in the second.
is_retryable(e) ==
    IF e.sqlite
    THEN \/ e.text \in Mentions("unable to open database file")
         \/ e.text \in Mentions("database is locked")
         \/ e.text \in Mentions("database disk image is malformed")
         \/ e.text \in Mentions("no such table")
    ELSE \/ e.text \in Mentions("unable to open")
         \/ e.text \in Mentions("database")

\* Whether reconnect() is called before the next attempt; probe_ok is the
\* outcome of self.conn.execute("SELECT 1").
reconnects(e, probe_ok) ==
    IF e.sqlite
    THEN e.text \in Mentions("unable to open database file") \/ ~probe_ok
    ELSE TRUE

\* The test attempt < max_retries - 1 with max_retries in place of it.
one_more_attempt(attempt) == attempt < max_retries

has_attempts_left(attempt) == attempt < max_retries - 1

IdleCall ==
    [phase |-> "idle", group_hash |-> NoHash, attempt |-> 0,
     invocations |-> 0, last |-> Ok, before |-> <<>>]
\* The scanner between two files: nothing is being processed.
IdleScan ==
    [pc |-> "idle", file_id |-> NULL, hash |-> NoHash, in_memory_matches |-> <<>>,
     db_matches |-> <<>>, todo |-> <<>>]

\* last_insert_rowid is sqlite3_last_insert_rowid() of the connection, 0 until
\* the connection has inserted a row; returned is the id that the last call
\* of record_file gave back.  files_by_size is the dictionary that one scan
\* keeps in memory (here the list of its entries, each with its size) and
\* scan is where the scanner is in its processing of one file.
NewStore ==
    [reconnected |-> FALSE, durable |-> <<>>, call |-> IdleCall,
     last_insert_rowid |-> 0, returned |-> NULL,
     files_by_size |-> <<>>, scan |-> IdleScan]

\* No call of retry_operation is in progress and the repositories'
\* connection is open.
Ready == store.call.phase # "running" /\ ~store.reconnected

\* conn.commit() at the end of a unit of work that returns.
Committed == [store EXCEPT !.durable = <<>>, !.call = IdleCall]

\* The tables after the first n writes of _do_handle: the DELETE and the
\* UPDATE when at most one record holds h, else the upsert of the group row
\* and one UPDATE per holder in id order.
WritesOf(h) ==
    IF Len(RowsWithHash(h)) <= 1 THEN 2 ELSE 1 + Len(RowsWithHash(h))
FilesAfter(h, n) ==
    LET rows == RowsWithHash(h)
    IN  IF Len(rows) <= 1
        THEN IF n >= 2 THEN ClearFlags(h) ELSE files
        ELSE IF n >= 2 THEN SetFlags(SubSeq(rows, 1, n - 1)) ELSE files
GroupsAfter(h, n) ==
    LET rows == RowsWithHash(h)
    IN  IF n = 0 THEN groups
        ELSE IF Len(rows) <= 1 THEN DeleteGroup(h)
        ELSE UpsertGroup(h, rows)

\* DuplicateRepository.handle_duplicate_hash(h) enters retry_operation.
CallReconcile(h) ==
    /\ ~Running
    /\ store.call.phase # "running"
    /\ store' = [store EXCEPT !.call =
                    [IdleCall EXCEPT !.phase = "running", !.group_hash = h,
                                     !.before = <<files, groups>>]]
    /\ run' = IdleRun /\ stats' = NoStats
    /\ UNCHANGED <<db, fs, rehashes>>

\* One iteration of the loop of retry_operation: the unit of work is invoked
\* and returns, or raises e after its first `done` writes; probe_ok is what
\* the check of the connection finds.  Once reconnect() has closed the
\* repositories' connection every statement on it raises ClosedHandle.
retry_operation(e, done, probe_ok) ==
    /\ store.call.phase = "running"
    /\ done <= WritesOf(store.call.group_hash)
    /\ LET c == store.call
           h == c.group_hash
           raised == IF store.reconnected THEN ClosedHandle ELSE e
           n == IF store.reconnected THEN 0 ELSE done
           again == is_retryable(raised) /\ has_attempts_left(c.attempt)
           closes == again /\ reconnects(raised, probe_ok)
                     /\ ~store.reconnected
           open == IF n > 0 /\ store.durable = <<>>
                   THEN [files |-> files, groups |-> groups]
                   ELSE store.durable
       IN  IF raised = Ok
           THEN /\ handle_duplicate_hash(h)
                /\ store' = [store EXCEPT
                               !.durable = <<>>,
                               !.call = [c EXCEPT !.phase = "returned",
                                                  !.invocations = @ + 1,
                                                  !.last = Ok]]
           ELSE /\ files' = IF closes /\ open # <<>> THEN open.files
                            ELSE FilesAfter(h, n)
                /\ groups' = IF closes /\ open # <<>> THEN open.groups
                             ELSE GroupsAfter(h, n)
                /\ store' = [store EXCEPT
                               !.reconnected = @ \/ closes,
                               !.durable = IF closes THEN <<>> ELSE open,
                               !.call = [c EXCEPT
                                  !.phase = IF again THEN "running"
                                            ELSE "raised",
                                  !.attempt = IF again THEN @ + 1 ELSE @,
                                  !.invocations = @ + 1,
                                  !.last = raised]]
    /\ UNCHANGED <<paths, statistics, fs, run, stats, rehashes>>

\* The process ends and the next one opens the store: the connection is
\* closed without a commit, CatalogDatabase.initialize connects anew.
Reopen ==
    /\ ~Running
    /\ store.call.phase # "running"
    /\ store # NewStore
    /\ files' = IF store.durable = <<>> THEN files ELSE store.durable.files
    /\ groups' = IF store.durable = <<>> THEN groups ELSE store.durable.groups
    /\ store' = NewStore
    /\ run' = IdleRun /\ stats' = NoStats
    /\ UNCHANGED <<paths, statistics, fs, rehashes>>

(***************************************************************************)
(* The repository operations as the scanner and the CLI call them, between *)
(* engine runs.                                                            *)
(***************************************************************************)
UpsertFile(p) ==
    /\ ~Running
    /\ Ready
    /\ p <= Len(files) + 1
    /\ files' = record_file(p, SizeOf(p))
    /\ run' = IdleRun /\ stats' = NoStats
    /\ store' = Committed
    /\ UNCHANGED <<paths, groups, statistics, fs, rehashes>>

\* What record_file returns for path p.  sqlite3 sets cursor.lastrowid from
\* the connection's last insert rowid after every INSERT statement; an upsert
\* that takes its DO UPDATE branch inserts no row and leaves that rowid as
\* the connection's last INSERT made it.  The SELECT by path is reached only
\* when the value is 0.
lastrowid(p) ==
    IF \E i \in Ids : files[i].original_path = p
    THEN store.last_insert_rowid
    ELSE Len(files) + 1
returned_id(p) ==
    IF lastrowid(p) # 0 THEN lastrowid(p) ELSE IdOfPath(p)

\* record_file as a call whose result is kept: the scanner and the CLI use
\* the returned id for record_path and update_file_hash.  s is the size
\* that the file has on disk at the time of the call.
Sizes == {5, 7}
RecordFile(p, s) ==
    /\ ~Running
    /\ Ready
    /\ p <= Len(files) + 1
    /\ files' = record_file(p, s)
    /\ run' = IdleRun /\ stats' = NoStats
    /\ store' = [Committed EXCEPT !.last_insert_rowid = lastrowid(p),
                                  !.returned = returned_id(p)]
    /\ UNCHANGED <<paths, groups, statistics, fs, rehashes>>

SetHash(id, h) ==
    /\ ~Running
    /\ Ready
    /\ LET replaces == /\ h \in Hashes
                       /\ files[id].file_hash \notin {NoHash, h}
       IN  /\ replaces => rehashes < MaxRehash
           /\ rehashes' = IF replaces THEN rehashes + 1 ELSE rehashes
    /\ files' = update_file_hash(id, h)
    /\ run' = IdleRun /\ stats' = NoStats
    /\ store' = Committed
    /\ UNCHANGED <<paths, groups, statistics, fs>>

ReconcileGroup(h) ==
    /\ ~Running
    /\ Ready
    /\ handle_duplicate_hash(h)
    /\ run' = IdleRun /\ stats' = NoStats
    /\ store' = Committed
    /\ UNCHANGED <<paths, statistics, fs, rehashes>>

RefreshStatistics ==
    /\ ~Running
    /\ Ready
    /\ statistics' = update_statistics
    /\ run' = IdleRun /\ stats' = NoStats
    /\ store' = Committed
    /\ UNCHANGED <<files, paths, groups, fs, rehashes>>

(***************************************************************************)
(* The scanner's processing of one file (scan_videos_in_folder, the body   *)
(* of its loop), one step per call of the catalog: the file is recorded,   *)
(* and when a file of the same size was met earlier in this scan it is     *)
(* hashed, then the earlier files without a hash are, and each hash        *)
(* recorded is reconciled.  Scans that skip hashing only record.           *)
(***************************************************************************)
\* str.lower() on the characters that file names have here.
Lower(name) ==
    [k \in DOMAIN name |->
        IF name[k] = "V" THEN "v" ELSE IF name[k] = "M" THEN "m" ELSE name[k]]

\* What calculate_file_hash_multi_chunk gives for the file of record id: the
\* digest of its content, or "Error" when it cannot be read.  The content of
\* a file does not change while it is scanned: a record with a hash gets
\* that hash again.
HashOutcomes(id) ==
    {Error} \cup (IF files[id].file_hash \in Hashes THEN {files[id].file_hash}
                  ELSE Hashes)

Unhashed(h) == h = NoHash \/ h \in Sentinels

\* Lines 176-238: the file is new to the catalog; record_file, record_path,
\* the entry in files_by_size, the earlier entries of the same size and,
\* when there are any, the catalog's records of the same size and name.
ScanFile(p, s) ==
    /\ ~Running
    /\ Ready
    /\ store.scan.pc = "idle"
    /\ p <= Len(files) + 1
    /\ ~\E i \in Ids : files[i].original_path = p
    /\ orig[p].kind = "file"
    /\ LET file_id == Len(files) + 1
           entry == [file_id |-> file_id, path |-> p, size |-> s, hash |-> NoHash]
           in_memory_matches ==
               SelectSeq(store.files_by_size, LAMBDA e : e.size = s)
           db_matches ==
               IF in_memory_matches = <<>> THEN <<>>
               ELSE SelectSeq(
                        [i \in 1..Len(files) |->
                            [id |-> i, file_hash |-> files[i].file_hash]],
                        LAMBDA row :
                            /\ files[row.id].file_size_bytes = s
                            /\ Lower(files[row.id].file_name) = Lower(NameOf(p)))
       IN  /\ files' = record_file(p, s)
           /\ paths' = record_path(file_id, OrigPath(p), "original")
           /\ store' = [Committed EXCEPT
                  !.last_insert_rowid = file_id,
                  !.returned = file_id,
                  !.files_by_size = Append(@, entry),
                  !.scan = IF in_memory_matches = <<>> /\ db_matches = <<>>
                           THEN IdleScan
                           ELSE [IdleScan EXCEPT
                                   !.pc = "hash new", !.file_id = file_id,
                                   !.in_memory_matches =
                                       [k \in DOMAIN in_memory_matches |->
                                           in_memory_matches[k].file_id],
                                   !.db_matches = db_matches]]
    /\ run' = IdleRun /\ stats' = NoStats
    /\ UNCHANGED <<groups, statistics, fs, rehashes>>

\* The entry of record id in files_by_size with its hash set.
WithEntryHash(id, h) ==
    [k \in DOMAIN store.files_by_size |->
        IF store.files_by_size[k].file_id = id
        THEN [store.files_by_size[k] EXCEPT !.hash = h]
        ELSE store.files_by_size[k]]
EntryHash(id) ==
    (CHOOSE e \in {store.files_by_size[k] : k \in DOMAIN store.files_by_size} :
        e.file_id = id).hash

\* Lines 242-265: the new file is hashed; its hash is recorded and looked
\* for among the hashes of the earlier entries and of the catalog's records.
HashNew(h) ==
    /\ store.scan.pc = "hash new"
    /\ h \in HashOutcomes(store.scan.file_id)
    /\ LET sc == store.scan
           hash_match_found ==
               \/ \E k \in DOMAIN sc.in_memory_matches :
                     EntryHash(sc.in_memory_matches[k]) = h
               \/ \E k \in DOMAIN sc.db_matches : sc.db_matches[k].file_hash = h
           memory == SelectSeq(sc.in_memory_matches,
                               LAMBDA id : EntryHash(id) = NoHash)
           rows == SelectSeq(sc.db_matches, LAMBDA row : Unhashed(row.file_hash))
           todo == [k \in DOMAIN memory |-> [id |-> memory[k], kept |-> TRUE]]
                   \o [k \in DOMAIN rows |-> [id |-> rows[k].id, kept |-> FALSE]]
       IN  IF h \in Sentinels
           THEN /\ store' = [Committed EXCEPT !.scan = IdleScan]
                /\ UNCHANGED files
           ELSE /\ files' = update_file_hash(sc.file_id, h)
                /\ store' = [Committed EXCEPT
                      !.files_by_size = WithEntryHash(sc.file_id, h),
                      !.scan = [sc EXCEPT
                          !.hash = h,
                          !.pc = IF hash_match_found \/ todo = <<>>
                                 THEN "handle new" ELSE "existing",
                          !.todo = IF hash_match_found THEN <<>> ELSE todo]]
    /\ run' = IdleRun /\ stats' = NoStats
    /\ UNCHANGED <<paths, groups, statistics, fs, rehashes>>

\* The scanner's position once the head of todo is done with.
AfterExisting ==
    [store.scan EXCEPT
        !.todo = Tail(@),
        !.pc = IF Tail(store.scan.todo) = <<>> THEN "handle new" ELSE "existing"]

\* Lines 274-282 and 287-293: an earlier file without a hash is hashed, an
\* entry of files_by_size keeps whatever came out, and a digest is recorded.
HashExisting(h) ==
    /\ store.scan.pc = "existing"
    /\ LET sc == store.scan
           head == Head(sc.todo)
           kept == IF head.kept THEN WithEntryHash(head.id, h)
                   ELSE store.files_by_size
       IN  /\ h \in HashOutcomes(head.id)
           /\ IF h \in Sentinels
              THEN /\ store' = [Committed EXCEPT !.files_by_size = kept,
                                                 !.scan = AfterExisting]
                   /\ UNCHANGED files
              ELSE /\ files' = update_file_hash(head.id, h)
                   /\ store' = [Committed EXCEPT
                         !.files_by_size = kept,
                         !.scan = [sc EXCEPT !.pc = "handle existing"]]
    /\ run' = IdleRun /\ stats' = NoStats
    /\ UNCHANGED <<paths, groups, statistics, fs, rehashes>>

\* Lines 284 and 295: handle_duplicate_hash(existing_hash).
HandleExisting ==
    /\ store.scan.pc = "handle existing"
    /\ handle_duplicate_hash(files[Head(store.scan.todo).id].file_hash)
    /\ store' = [Committed EXCEPT !.scan = AfterExisting]
    /\ run' = IdleRun /\ stats' = NoStats
    /\ UNCHANGED <<paths, statistics, fs, rehashes>>

\* Lines 270 and 299: handle_duplicate_hash(file_hash_value); the file is
\* done.
HandleNew ==
    /\ store.scan.pc = "handle new"
    /\ handle_duplicate_hash(store.scan.hash)
    /\ store' = [Committed EXCEPT !.scan = IdleScan]
    /\ run' = IdleRun /\ stats' = NoStats
    /\ UNCHANGED <<paths, statistics, fs, rehashes>>

(***************************************************************************)
(* The fingerprint (calculate_file_hash_multi_chunk).  The content of a    *)
(* file is the sequence of its bytes, each "0" or "1".  The code's sizes   *)
(* are scaled by 1/512: a chunk of 1024 bytes is one of 2, and the         *)
(* multi-chunk threshold of 5120 bytes is one of 10.  hashlib.md5 is taken *)
(* as free of collisions: the digest of a text is the text under a tag.    *)
(***************************************************************************)
HASH_CHUNK_SIZE == 2
HASH_MIN_SIZE_FOR_MULTI_CHUNK == 10
FileSizes == 9..11     \* sizes of the files that are hashed
MaxEdits == 2          \* bytes in which a file differs from its copy

Bytes == {"0", "1"}
Data(p, bytes) == [kind |-> "file", from |-> p, bytes |-> bytes]

md5(data) == <<"md5", data>>

\* f.seek(pos); f.read(n): the bytes from pos on, n of them or as many as
\* the file has left.
ReadAt(data, pos, n) ==
    SubSeq(data, pos + 1, IF pos + n < Len(data) THEN pos + n ELSE Len(data))

\* The branch for small files taken whatever the size: the digest of the
\* whole content.
hash_whole_file(data) == md5(data)

calculate_file_hash_multi_chunk(data) ==
    LET file_size == Len(data)
    IN  IF file_size < HASH_MIN_SIZE_FOR_MULTI_CHUNK
        THEN md5(data)
        ELSE LET first_chunk == ReadAt(data, 0, HASH_CHUNK_SIZE)
                 first_hash == md5(first_chunk)
                 last_chunk == ReadAt(data, file_size - HASH_CHUNK_SIZE,
                                      HASH_CHUNK_SIZE)
                 last_hash == md5(last_chunk)
                 middle_position == file_size \div 2
                 middle_chunk ==
                     ReadAt(data, middle_position - HASH_CHUNK_SIZE \div 2,
                            HASH_CHUNK_SIZE)
                 middle_hash == md5(middle_chunk)
                 combined == first_hash \o middle_hash \o last_hash
             IN  md5(combined)

\* The positions in which the files at paths 1 and 2 differ.
Edits == {i \in DOMAIN orig[1].bytes : orig[1].bytes[i] # orig[2].bytes[i]}

\* A byte of the file at path 2, a copy of the file at path 1, is
\* overwritten; what a scan found for the earlier content is forgotten.
Overwrite(i, v) ==
    /\ i \in DOMAIN orig[2].bytes
    /\ orig[2].bytes[i] # v
    /\ orig' = [orig EXCEPT ![2].bytes[i] = v]
    /\ Cardinality(Edits') <= MaxEdits
    /\ store' = NewStore
    /\ UNCHANGED <<db, cdisk, basedir, run, stats, rehashes>>

\* The scanner takes the fingerprint of the file at path p.
HashFile(p) ==
    /\ store' = [store EXCEPT
                   !.scan.file_id = p,
                   !.scan.hash = calculate_file_hash_multi_chunk(orig[p].bytes)]
    /\ UNCHANGED <<db, fs, run, stats, rehashes>>

\* An original file is removed by hand.
Removed == {p \in Paths : orig[p].kind = "none"
                          /\ \A c \in DOMAIN cdisk : cdisk[c] # File(p)}
DeleteOriginal(p) ==
    /\ ~Running
    /\ orig[p].kind = "file"
    /\ Cardinality(Removed) < MaxDeleted
    /\ orig' = [orig EXCEPT ![p] = Absent]
    /\ run' = IdleRun /\ stats' = NoStats
    /\ UNCHANGED <<db, cdisk, basedir, rehashes, store>>

(***************************************************************************)
(* The specification.                                                      *)
(***************************************************************************)
Init ==
    /\ files = <<>>
    /\ paths = {}
    /\ groups = <<>>
    /\ statistics = <<>>
    /\ orig = [p \in Paths |-> File(p)]
    /\ cdisk = <<>>
    /\ basedir = FALSE
    /\ run = IdleRun
    /\ stats = NoStats
    /\ store = NewStore
    /\ rehashes = 0

Halts == {"none", "moved", "recorded"}
LinkHalts == {"none", "unlinked", "linked", "recorded"}
HashValues == Hashes \cup Sentinels \cup {NoHash}

\* Scans of files that all have the content HashA, and engine runs that may be
\* dry, fail their pre-flight checks or be killed at any point.
Next ==
    \/ \E p \in Paths : UpsertFile(p)
    \/ \E id \in Ids, h \in HashValues \ {HashB} : SetHash(id, h)
    \/ \E h \in HashValues : ReconcileGroup(h)
    \/ \E p \in Paths : DeleteOriginal(p)
    \/ \E dry \in BOOLEAN, preflight \in {"ok", "not writable", "declined"} :
          StartRun(dry, preflight)
    \/ \E halt \in Halts : consolidate_unique_file(halt)
    \/ BeginGroups
    \/ \E halt \in Halts : EnterGroup(halt)
    \/ \E halt \in LinkHalts : create_symlink_for_duplicate(halt)
    \/ LeaveGroup
    \/ FinishRun
    \/ Crash

Spec == Init /\ [][Next]_vars

\* The catalog's operations in any order and with any hash value, and engine
\* runs that are not dry and run to their end.
NextCatalog ==
    \/ \E p \in Paths : UpsertFile(p)
    \/ \E id \in Ids, h \in HashValues : SetHash(id, h)
    \/ \E h \in HashValues : ReconcileGroup(h)
    \/ RefreshStatistics
    \/ StartRun(FALSE, "ok")
    \/ consolidate_unique_file("none")
    \/ BeginGroups
    \/ EnterGroup("none")
    \/ create_symlink_for_duplicate("none")
    \/ LeaveGroup
    \/ FinishRun

SpecCatalog == Init /\ [][NextCatalog]_vars

\* The repositories alone: the calls a scan makes, in any order and with any
\* hash value, and the statistics refresh.
NextRepository ==
    \/ \E p \in Paths : UpsertFile(p)
    \/ \E id \in Ids, h \in HashValues : SetHash(id, h)
    \/ \E h \in HashValues : ReconcileGroup(h)
    \/ RefreshStatistics

SpecRepository == Init /\ [][NextRepository]_vars

\* Engine runs, dry or not, that are never killed and in which a move or the
\* making of a link may raise; the pre-flight checks may fail, and originals
\* may be removed by hand between runs.
Faults == {"none", "move failed"}
LinkFaults == {"none", "unresolvable", "link denied"}
NextFaults ==
    \/ \E p \in Paths : UpsertFile(p)
    \/ \E id \in Ids : SetHash(id, HashA)
    \/ ReconcileGroup(HashA)
    \/ \E p \in Paths : DeleteOriginal(p)
    \/ \E dry \in BOOLEAN, preflight \in {"ok", "not writable", "declined"} :
          StartRun(dry, preflight)
    \/ \E halt \in Faults : consolidate_unique_file(halt)
    \/ BeginGroups
    \/ \E halt \in Faults : EnterGroup(halt)
    \/ \E halt \in LinkFaults : create_symlink_for_duplicate(halt)
    \/ LeaveGroup
    \/ FinishRun

SpecFaults == Init /\ [][NextFaults]_vars

\* Scans and non-dry engine runs that are never killed and in which only a
\* move may raise: a file that a run could not move is still not_processed
\* and in place when a later scan records its hash.
NextMoveFaults ==
    \/ \E p \in Paths : UpsertFile(p)
    \/ \E id \in Ids : SetHash(id, HashA)
    \/ ReconcileGroup(HashA)
    \/ StartRun(FALSE, "ok")
    \/ \E halt \in Faults : consolidate_unique_file(halt)
    \/ BeginGroups
    \/ \E halt \in Faults : EnterGroup(halt)
    \/ create_symlink_for_duplicate("none")
    \/ LeaveGroup
    \/ FinishRun

SpecMoveFaults == Init /\ [][NextMoveFaults]_vars

\* Scans, originals removed by hand, and engine runs that are never killed
\* and in which nothing raises: dry runs, real runs, and real runs that
\* follow a dry run at once.
NextPreview ==
    \/ \E p \in Paths : UpsertFile(p)
    \/ \E id \in Ids : SetHash(id, HashA)
    \/ ReconcileGroup(HashA)
    \/ \E p \in Paths : DeleteOriginal(p)
    \/ \E dry \in BOOLEAN : StartRun(dry, "ok")
    \/ RunAfterPreview
    \/ consolidate_unique_file("none")
    \/ BeginGroups
    \/ EnterGroup("none")
    \/ create_symlink_for_duplicate("none")
    \/ LeaveGroup
    \/ FinishRun

SpecPreview == Init /\ [][NextPreview]_vars

\* Every repository mutation, called by the scanner, the CLI or an engine
\* run that is not dry and runs to its end, on catalogs with one content
\* hash.
NextOperations ==
    \/ \E p \in Paths : UpsertFile(p)
    \/ \E id \in Ids, h \in HashValues \ {HashB} : SetHash(id, h)
    \/ \E h \in HashValues \ {HashB} : ReconcileGroup(h)
    \/ RefreshStatistics
    \/ StartRun(FALSE, "ok")
    \/ consolidate_unique_file("none")
    \/ BeginGroups
    \/ EnterGroup("none")
    \/ create_symlink_for_duplicate("none")
    \/ LeaveGroup
    \/ FinishRun

SpecOperations == Init /\ [][NextOperations]_vars

\* Calls of record_file and update_file_hash by processes that each open the
\* catalog anew.  (No other INSERT is made here, so that the connection's
\* last insert rowid is the id of a files row.)
NextRecord ==
    \/ \E p \in Paths, s \in Sizes : RecordFile(p, s)
    \/ \E id \in Ids, h \in Hashes : SetHash(id, h)
    \/ Reopen

SpecRecord == Init /\ [][NextRecord]_vars

\* Scans, each a process of its own that ends between two files.
NextScanner ==
    \/ \E p \in Paths, s \in Sizes : ScanFile(p, s)
    \/ \E h \in Hashes \cup {Error} : HashNew(h)
    \/ \E h \in Hashes \cup {Error} : HashExisting(h)
    \/ HandleExisting
    \/ HandleNew
    \/ store.scan.pc = "idle" /\ Reopen

SpecScanner == Init /\ [][NextScanner]_vars

\* The fingerprint alone: a file of any content of the sizes FileSizes, a
\* copy of it in which up to MaxEdits bytes are overwritten, and scans that
\* hash either.
InitHashing ==
    /\ files = <<>>
    /\ paths = {}
    /\ groups = <<>>
    /\ statistics = <<>>
    /\ \E n \in FileSizes : \E bytes \in [1..n -> Bytes] :
          orig = [p \in Paths |-> IF p <= 2 THEN Data(p, bytes) ELSE File(p)]
    /\ cdisk = <<>>
    /\ basedir = FALSE
    /\ run = IdleRun
    /\ stats = NoStats
    /\ store = NewStore
    /\ rehashes = 0

NextHashing ==
    \/ \E i \in DOMAIN orig[2].bytes, v \in Bytes : Overwrite(i, v)
    \/ \E p \in 1..2 : HashFile(p)

SpecHashing == InitHashing /\ [][NextHashing]_vars

\* The store under failures of handle_duplicate_hash's unit of work: no hash
\* is replaced, and the engine does not run.
Probes == BOOLEAN
NextStore ==
    \/ \E p \in Paths : UpsertFile(p)
    \/ \E id \in Ids : files[id].file_hash = NoHash /\ SetHash(id, HashA)
    \/ CallReconcile(HashA)
    \/ \E e \in Failures \cup {Ok}, done \in 0..(MaxFiles + 1), probe_ok \in Probes :
          retry_operation(e, done, probe_ok)
    \/ Reopen
SpecStore == Init /\ [][NextStore]_vars

\* The loop of retry_operation goes on: the unit of work returns or raises
\* (the connection's timeout is 30 seconds) and every sleep ends.
SpecStoreFair ==
    /\ SpecStore
    /\ WF_vars(\E e \in Failures \cup {Ok}, done \in 0..(MaxFiles + 1),
                  probe_ok \in Probes : retry_operation(e, done, probe_ok))

(***************************************************************************)
(* Properties.                                                             *)
(***************************************************************************)
StatusOf(i) == files[i].deduplication_status
OwnsConsolidated(i) ==
    \E r \in paths : r.file_id = i /\ r.path_type = "consolidated"
GroupComplete(h) ==
    \E k \in DOMAIN groups :
        groups[k].group_hash = h /\ groups[k].deduplicated_at
GroupPending(h) ==
    \E k \in DOMAIN groups :
        groups[k].group_hash = h /\ ~groups[k].deduplicated_at
Members(h) == {i \in Ids : files[i].file_hash = h}
Completed == run.mode = "done" /\ ~run.dry_run
\* C1: a duplicate group goes from pending to complete only when every
\* FileRecord holding the group's hash is deduplicated.
C1_CompleteOnlyAfterMembers ==
    [][\A h \in Hashes :
          GroupPending(h) /\ GroupComplete(h)'
          => \A i \in Members(h) : StatusOf(i)' = "deduplicated"]_vars

\* C2: a non-dry run that follows a completed non-dry run, with no operation
\* on the catalog or the disk in between, moves no file, creates no symlink
\* and counts none.
C2_SecondRunMovesNothing ==
    [][run'.second =>
          /\ UNCHANGED <<orig, cdisk>>
          /\ stats'.files_consolidated = 0
          /\ stats'.symlinks_created = 0]_vars

\* A second run has returned, after a first run that consolidated a master
\* and linked a duplicate to it.
C2_Witness ==
    /\ Completed /\ run.second
    /\ \E p \in Paths : orig[p].kind = "link"
    /\ \E i \in Ids : OwnsConsolidated(i)

\* C3: when such a second run has returned, every persisted statistic has
\* the value it had when the first run had returned.
C3_SecondRunKeepsStatistics ==
    (Completed /\ run.second) => statistics = run.before

\* A record whose file an interrupted run moved to the consolidated tree
\* without writing to the catalog.
Orphaned(i) ==
    /\ StatusOf(i) = "not_processed"
    /\ ~OwnsConsolidated(i)
    /\ orig[files[i].original_path].kind = "none"
    /\ \E c \in DOMAIN cdisk : cdisk[c] = File(files[i].original_path)

\* C4: a non-dry run that returns leaves no such record behind: the record
\* whose file an interrupted run moved without writing to the catalog is
\* deduplicated and owns its consolidated PathEntry once the next run returns.
C4_NextRunRecovers ==
    Completed => \A i \in Ids : ~Orphaned(i)

\* C5: no two FileRecords own the same consolidated path, and a move neither
\* replaces what a path of the consolidated tree holds nor takes a path that
\* is registered as a consolidated PathEntry.
C5_CollisionFree ==
    [][/\ \A r1, r2 \in paths' :
             (/\ r1.path_type = "consolidated" /\ r2.path_type = "consolidated"
              /\ r1.path = r2.path) => r1.file_id = r2.file_id
       /\ \A c \in DOMAIN cdisk' :
             IF c \in DOMAIN cdisk THEN cdisk'[c] = cdisk[c]
             ELSE ~consolidated_path_exists(c)]_vars

\* Two files whose sanitised names are equal were consolidated under the same
\* hash: the second received the suffix _1, a third name that is spelt like
\* that received _2 or the plain name.
C5_Witness ==
    \E i, j \in Ids :
        /\ i # j
        /\ \E ri, rj \in paths :
              /\ ri.file_id = i /\ rj.file_id = j
              /\ ri.path_type = "consolidated" /\ rj.path_type = "consolidated"
              /\ sanitize_filename(files[i].file_name)
                    = sanitize_filename(files[j].file_name)
              /\ DirName(ri.path) = DirName(rj.path)
              /\ ri.path # rj.path

\* C6: every FileRecord with a master reference is flagged a duplicate, and
\* the record it refers to is not.
C6_MasterReference ==
    \A i \in Ids :
        files[i].master_file_id # NULL
        => /\ files[i].is_duplicate
           /\ ~files[files[i].master_file_id].is_duplicate

LowestId(h) == CHOOSE i \in Members(h) : \A j \in Members(h) : i <= j
GroupRowsOf(h) == {k \in DOMAIN groups : groups[k].group_hash = h}
TotalSize(S) == SumSizes(SortAsc(S))

Reconciled(h) ==
    LET m == LowestId(h)
        g == GroupOf(h)
    IN  /\ ~files[m].is_duplicate /\ files[m].master_file_id = NULL
        /\ \A i \in Members(h) \ {m} :
              files[i].is_duplicate /\ files[i].master_file_id = m
        /\ Cardinality(GroupRowsOf(h)) = 1
        /\ g.master_file_id = m
        /\ g.duplicate_count = Cardinality(Members(h)) - 1
        /\ g.total_size_bytes = TotalSize(Members(h))
        /\ g.space_saved_bytes = TotalSize(Members(h)) - files[m].file_size_bytes

\* C7: reconcileGroup(h) on a hash that N >= 2 records hold leaves the lowest
\* id the master (not a duplicate, no master reference), every other holder a
\* duplicate of it, and one group row for h with that master,
\* duplicate_count = N - 1, the sum of the holders' sizes as total and the
\* total less the master's size as space saved.
C7_ReconcileGroup ==
    [][\A h \in Hashes :
          (ReconcileGroup(h) /\ Cardinality(Members(h)) >= 2) => Reconciled(h)']_vars

\* A hash is held by three records of two different sizes and reconciled.
C7_Witness ==
    \E h \in Hashes :
        /\ Cardinality(Members(h)) = 3
        /\ Reconciled(h)
        /\ GroupOf(h).space_saved_bytes # GroupOf(h).duplicate_count * GroupOf(h).file_size_bytes

Dissolved(h) ==
    /\ GroupRowsOf(h) = {}
    /\ \A i \in Members(h) :
          ~files[i].is_duplicate /\ files[i].master_file_id = NULL

\* C8: reconcileGroup(h) on a hash that at most one record holds leaves no
\* group row for h, and the holder, if any, neither a duplicate nor with a
\* master reference.
C8_ReconcileSingle ==
    [][\A h \in Hashes :
          (ReconcileGroup(h) /\ Cardinality(Members(h)) <= 1) => Dissolved(h)']_vars

\* A hash has lost all holders but one and was reconciled: no group row is
\* left, while the record that left the hash is still flagged a duplicate of
\* the holder, as the reconciliation that made the group had flagged it.
C8_Witness ==
    /\ groups = <<>>
    /\ \E h \in Hashes, j \in Ids :
          /\ Cardinality(Members(h)) = 1
          /\ Dissolved(h)
          /\ files[j].is_duplicate
          /\ files[j].master_file_id \in Members(h)

\* C9: no two FileRecords that share a hash both own a consolidated PathEntry.
C9_OneCopyPerHash ==
    \A i, j \in Ids :
        (/\ i # j
         /\ files[i].file_hash # NoHash
         /\ files[i].file_hash = files[j].file_hash)
        => ~(OwnsConsolidated(i) /\ OwnsConsolidated(j))

\* C10: a FileRecord that is deduplicated stays deduplicated in every step,
\* whichever operation takes it.
C10_StatusMonotone ==
    [][\A i \in Ids :
          StatusOf(i) = "deduplicated"
          => i \in DOMAIN files' /\ StatusOf(i)' = "deduplicated"]_vars

\* A record was consolidated before it had a hash; since then it was given a
\* hash, reconciled into a group as a duplicate, and the statistics were
\* refreshed.
C10_Witness ==
    \E i \in Ids :
        /\ StatusOf(i) = "deduplicated"
        /\ \E r \in paths :
              /\ r.file_id = i /\ r.path_type = "consolidated"
              /\ r.path[3] = <<"0", "0">>
        /\ files[i].file_hash \in Hashes
        /\ files[i].is_duplicate
        /\ "duplicate_files" \in DOMAIN statistics
        /\ get_stat_value("duplicate_files", 0) >= 1


\* The engine passes over the group at the head of its list without entering
\* the loop over the group's files.
SkipsGroup ==
    /\ run.mode = "groups" /\ run.group = NoHash /\ run.duplicate_groups # <<>>
    /\ run'.mode = "groups" /\ run'.group = NoHash
    /\ run'.duplicate_groups = Tail(run.duplicate_groups)

\* The master of a pending group is not among the records that hold the
\* group's hash.
MasterNotAMember(g) ==
    /\ ~g.deduplicated_at
    /\ Members(g.group_hash) # {}
    /\ g.master_file_id \notin Members(g.group_hash)

\* The master of a pending group is among the holders, has no consolidated
\* file and no file at its original path.
MasterUnmovable(g) ==
    /\ ~g.deduplicated_at
    /\ g.master_file_id \in Members(g.group_hash)
    /\ LET existing_path == get_master_file_path(g.master_file_id)
       IN  ~(existing_path # NoPath /\ CExists(existing_path))
    /\ ~Exists(files[g.master_file_id].original_path)

\* C11: when the master of a pending group is not among the group's members
\* or cannot be moved, the engine leaves the disk as it is, does not mark the
\* group complete and appends one entry to the run's errors.
C11_MasterFailureReported ==
    [][(/\ SkipsGroup
        /\ \/ MasterNotAMember(Head(run.duplicate_groups))
           \/ MasterUnmovable(Head(run.duplicate_groups)))
       => /\ UNCHANGED <<orig, cdisk>>
          /\ \A h \in Hashes :
                h = Head(run.duplicate_groups).group_hash => ~GroupComplete(h)'
          /\ Len(stats'.errors) = Len(stats.errors) + 1]_vars


\* The engine takes the member at the head of the entered group's list
\* through _create_symlink_for_duplicate.
HandlesMember ==
    /\ run.mode = "groups" /\ run.group # NoHash /\ run.members # <<>>
    /\ run'.mode = "groups" /\ run'.members = Tail(run.members)

SymlinkEntries == {r \in paths : r.path_type = "symlink"}

\* C12: when a non-dry run handles a non-master member whose original path
\* holds nothing while the master's consolidated file exists, it marks the
\* member deduplicated, creates no symlink, records no symlink PathEntry and
\* appends nothing to the run's errors.
C12_MissingDuplicateMarked ==
    [][\A id \in Ids :
          (/\ HandlesMember
           /\ id = Head(run.members)
           /\ ~run.dry_run
           /\ CExists(run.master_path)
           /\ orig[files[id].original_path].kind = "none")
          => /\ StatusOf(id)' = "deduplicated"
             /\ UNCHANGED <<orig, cdisk>>
             /\ SymlinkEntries' = SymlinkEntries
             /\ stats'.errors = stats.errors]_vars

\* A run has returned without errors that marked a duplicate deduplicated
\* whose original was removed by hand: the record owns no PathEntry and no
\* path of the disk holds its file or a link in its place.
C12_Witness ==
    /\ Completed /\ stats.errors = <<>>
    /\ \E id \in Ids :
          /\ files[id].is_duplicate
          /\ StatusOf(id) = "deduplicated"
          /\ orig[files[id].original_path].kind = "none"
          /\ ~\E r \in paths : r.file_id = id
          /\ GroupComplete(files[id].file_hash)


\* The number of '..' in the relative path from the directory of record id's
\* original to the file that the entered group's master path leads to.
UpsToMaster(id) ==
    LET p == files[id].original_path
        start == IF orig[p].kind = "link" THEN LinkTarget(p) ELSE OrigPath(p)
    IN  relpath(CResolve(run.master_path), DirName(start)).ups

C14_DryRunChangesNothing ==
    [][run'.dry_run => UNCHANGED <<db, fs>>]_vars

\* The same for the tables and the files alone.
DryRunKeepsCatalogAndFiles ==
    [][run'.dry_run => UNCHANGED <<db, orig, cdisk>>]_vars


\* The loop of retry_operation has invoked the unit of work and it raised.
Fails ==
    /\ store.call.phase = "running"
    /\ store'.call.invocations = store.call.invocations + 1
    /\ store'.call.last # Ok

\* C15: every call of retry_operation ends: the unit of work is invoked at
\* most 5 times, a fifth failure is raised to the caller, and a call in
\* progress returns or raises.
C15_CallTerminates ==
    /\ [](store.call.invocations <= 5)
    /\ []((store.call.invocations = 5 /\ store.call.last # Ok)
            => store.call.phase = "raised")
    /\ (store.call.phase = "running"
          ~> store.call.phase \in {"returned", "raised"})

\* A call has raised the fifth "database is locked" of its unit of work.
C15_Witness ==
    /\ store.call.phase = "raised"
    /\ store.call.invocations = 5
    /\ store.call.attempt = 4
    /\ store.call.last = Locked

\* C16: a constraint violation or a logic error of the unit of work is
\* raised to the caller by the iteration it occurs in, which does not
\* reconnect: the unit of work is not invoked again.
C16_PermanentRaisedAtOnce ==
    [][(Fails /\ store'.call.last \in {Constraint, LogicError})
       => /\ store'.call.phase = "raised"
          /\ store'.call.attempt = store.call.attempt
          /\ store'.reconnected = store.reconnected]_vars

\* A call has raised a constraint violation after one invocation, on the
\* connection the repositories were built with.
C16_Witness ==
    /\ store.call.phase = "raised"
    /\ store.call.invocations = 1
    /\ store.call.last = Constraint
    /\ ~store.reconnected

\* C17: a failure of kind Locked, HandleInvalid (the store's file cannot be
\* opened, the connection is closed) or SchemaNotReady in one of the first
\* four invocations is not raised to the caller: the call goes on.
C17_TransientRetried ==
    [][(/\ Fails
        /\ store'.call.last \in {Locked, UnableToOpen, ClosedHandle, NoSuchTable}
        /\ store'.call.invocations < 5)
       => store'.call.phase = "running"]_vars

\* The same for the failures that the texts of retry_operation name.
NamedTextsRetried ==
    [][(/\ Fails
        /\ store'.call.last \in {Locked, UnableToOpen, Malformed, NoSuchTable}
        /\ store'.call.invocations < 5)
       => store'.call.phase = "running"]_vars

\* C18: a call in which the policy has reconnected does not raise the
\* closed connection to the caller.
C18_ReconnectUnobserved ==
    ~(/\ store.call.phase = "raised"
      /\ store.reconnected
      /\ store.call.last = ClosedHandle)

\* C19: when a call of handle_duplicate_hash raises, the tables files and
\* duplicate_groups as the store's connection shows them to every later
\* operation, and as the next commit writes them, are the tables of before
\* the call.
C19_AllOrNothing ==
    [][(store.call.phase = "running" /\ store'.call.phase = "raised")
       => <<files, groups>>' = store.call.before]_vars

\* After a call that raised part-way no later operation commits on a
\* connection whose transaction holds the call's writes.
RaisedWritesNeverCommitted ==
    [][(store.durable # <<>> /\ store.call.phase = "raised")
       => store'.durable # <<>> \/ <<files, groups>>' = store.call.before]_vars


Counters == {"files_consolidated", "symlinks_created", "files_deduplicated"}
PersistedBefore(name) ==
    IF name \in DOMAIN run.before THEN ParseInt(run.before[name]) ELSE 0

\* C20: when a non-dry run has returned, each persisted counter of the engine
\* is its persisted value of before the run plus what the run counted.
C20_CountersAdditive ==
    Completed =>
        \A name \in Counters :
            get_stat_value(name, 0) = PersistedBefore(name) + stats[name]


\* The stored value of a counter, 0 when the table has no row for it.
Persisted(name) ==
    IF name \in DOMAIN statistics THEN ParseInt(statistics[name]) ELSE 0

\* C21: a statistics refresh leaves each of the engine's three counters at
\* its stored value, 0 when it was never stored, whatever files and
\* duplicate_groups hold.
C21_RefreshKeepsCounters ==
    [][(statistics' # statistics /\ run'.mode = "idle")
       => \A name \in Counters :
             /\ name \in DOMAIN statistics'
             /\ Persisted(name)' = Persisted(name)]_vars

\* The statistics were refreshed after a run that stored counters above 0,
\* with a duplicate group in the catalog.
C21_Witness ==
    /\ run.mode = "idle"
    /\ "total_files" \in DOMAIN statistics
    /\ Persisted("duplicate_groups") >= 1
    /\ Persisted("files_consolidated") >= 1
    /\ Persisted("symlinks_created") >= 1


NotAHash == Sentinels \cup {NoHash}
NoSentinelStored ==
    /\ \A i \in Ids : files[i].file_hash \notin Sentinels
    /\ \A k \in DOMAIN groups : groups[k].group_hash \notin NotAHash

\* C22: no file_hash and no group_hash is "Error" or "Skipped" (nor is a
\* group_hash empty); setHash with such a value or the empty hash leaves
\* every FileRecord as it is, and reconcileGroup with one leaves every
\* FileRecord and every DuplicateGroup as it is.
C22_SentinelsStayOut ==
    /\ []NoSentinelStored
    /\ [][\A h \in NotAHash :
             /\ \A id \in Ids : SetHash(id, h) => UNCHANGED <<files, groups>>
             /\ ReconcileGroup(h) => UNCHANGED <<files, groups>>]_vars

\* A catalog on which the calls with a sentinel act: a record without a
\* hash beside a duplicate group whose members hold one.
C22_Witness ==
    /\ ~Running /\ Ready
    /\ NoSentinelStored
    /\ \E i \in Ids : files[i].file_hash = NoHash
    /\ \E k \in DOMAIN groups : groups[k].duplicate_count >= 1
    /\ \E i \in Ids : files[i].is_duplicate


\* Where the master of h's group is, or will be moved to.
MasterTarget(h) ==
    LET m == LowestId(h)
    IN  IF get_master_file_path(m) # NoPath THEN get_master_file_path(m)
        ELSE get_consolidated_path(files[m].file_hash, files[m].file_name)
Linkable(i, h) ==
    ~too_deep(relpath(MasterTarget(h), OrigDir(files[i].original_path)))
InPlace(i) == orig[files[i].original_path] = File(files[i].original_path)
Queued(seq, x) == \E k \in DOMAIN seq : seq[k] = x
GroupQueued(h) ==
    \E k \in DOMAIN run.duplicate_groups :
        run.duplicate_groups[k].group_hash = h

\* A non-dry run has passed its pre-flight checks and handled nothing yet.
RunStarts == run.mode = "unique" /\ ~run.dry_run /\ stats = NoStats

\* N >= 2 records hold h, their group is reconciled and pending, every
\* record of the catalog is not_processed with its file at the original path,
\* the records outside the group are unique files, and every duplicate of the
\* group is within reach of the master.
WholeGroupPending(h) ==
    /\ Cardinality(Members(h)) >= 2
    /\ GroupPending(h) /\ Reconciled(h)
    /\ \A i \in Ids : StatusOf(i) = "not_processed" /\ InPlace(i)
    /\ \A i \in Ids \ Members(h) :
          ~files[i].is_duplicate /\ files[i].master_file_id = NULL
    /\ \A i \in Members(h) \ {LowestId(h)} : Linkable(i, h)

\* What such a run has done so far: every record is either handled (moved
\* when it is the master or outside the group, linked to the master's file
\* when it is a duplicate) and counted, or untouched and still ahead in the
\* run's queues.
RunOnGroup(h) ==
    LET G == Members(h)
        m == LowestId(h)
        c == get_master_file_path(m)
        done == {i \in Ids : StatusOf(i) = "deduplicated"}
        links == done \cap (G \ {m})
        moved == done \ links
    IN  /\ run.mode \in {"unique", "groups", "done"} /\ ~run.dry_run
        /\ Cardinality(G) >= 2
        /\ h \in GroupHashes /\ Reconciled(h)
        /\ stats.errors = <<>>
        /\ stats.files_consolidated = Cardinality(moved)
        /\ stats.symlinks_created = Cardinality(links)
        /\ stats.files_deduplicated = Cardinality(done)
        /\ Cardinality(DOMAIN cdisk) = Cardinality(moved)
        /\ \A i \in moved :
              /\ orig[files[i].original_path] = Absent
              /\ get_master_file_path(i) \in DOMAIN cdisk
              /\ cdisk[get_master_file_path(i)] = File(files[i].original_path)
        /\ \A i \in links :
              /\ m \in moved
              /\ orig[files[i].original_path].kind = "link"
              /\ LinkTarget(files[i].original_path) = c
              /\ PathRow(i, "symlink", OrigPath(files[i].original_path)) \in paths
        /\ \A i \in Ids \ done :
              /\ InPlace(i)
              /\ IF i \in G \ {m}
                 THEN /\ Linkable(i, h)
                      /\ \/ run.mode = "unique"
                         \/ /\ run.mode = "groups" /\ run.group = NoHash
                            /\ GroupQueued(h)
                         \/ /\ run.mode = "groups" /\ run.group = h
                            /\ Queued(run.members, i)
                 ELSE run.mode = "unique" /\ Queued(run.unique_files, i)
        /\ run.group = h => run.master_path = c /\ m \in moved
        /\ GroupComplete(h) => links = G \ {m}
        /\ GroupPending(h) =>
              \/ run.mode = "unique"
              \/ run.mode = "groups" /\ run.group = h
              \/ run.mode = "groups" /\ run.group = NoHash /\ GroupQueued(h)

\* The outcome for the group of h when the run has returned.
OneMasterAndLinks(h) ==
    LET G == Members(h)
        m == LowestId(h)
        c == get_master_file_path(m)
        N == Cardinality(G)
    IN  /\ {i \in G : orig[files[i].original_path] = Absent} = {m}
        /\ c \in DOMAIN cdisk /\ cdisk[c] = File(files[m].original_path)
        /\ {r.file_id : r \in {r \in paths : r.path_type = "consolidated"}}
              \cap G = {m}
        /\ Cardinality({i \in G : /\ orig[files[i].original_path].kind = "link"
                                  /\ LinkTarget(files[i].original_path) = c})
              = N - 1
        /\ Cardinality({r \in SymlinkEntries : r.file_id \in G}) = N - 1
        /\ \A i \in G : StatusOf(i) = "deduplicated"
        /\ GroupComplete(h)
        /\ GroupOf(h).duplicate_count = N - 1
        /\ stats.symlinks_created = N - 1
        /\ stats.files_consolidated = 1 + Cardinality(Ids \ G)
        /\ stats.files_deduplicated = N + Cardinality(Ids \ G)
        /\ stats.errors = <<>>

FailedChecks == {"not writable", "declined"}

LoopStep == Running /\ run'.mode # "idle" /\ run' # run
Returned == run.mode \in {"done", "aborted"}

\* C25: a step of a run that records an error (a missing source, a move or
\* a link that raised, a relative path that cannot be computed or is too
\* deep) takes only the entry it handled off the run's lists, so that every
\* other unique file, group and member is still ahead; the run returns only
\* when its lists are empty; and the exit status of a returned run is 1
\* exactly when its error list is not empty.
C25_ErrorsDoNotAbort ==
    /\ [][(LoopStep /\ stats'.errors # stats.errors)
          => /\ Len(stats'.errors) = Len(stats.errors) + 1
             /\ run'.mode = run.mode
             /\ run.mode = "unique"
                   => run'.unique_files = Tail(run.unique_files)
             /\ (run.mode = "groups" /\ run.group = NoHash)
                   => /\ run'.duplicate_groups = Tail(run.duplicate_groups)
                      /\ run'.group = NoHash
             /\ (run.mode = "groups" /\ run.group # NoHash)
                   => /\ run'.members = Tail(run.members)
                      /\ run'.group = run.group
                      /\ run'.duplicate_groups = run.duplicate_groups]_vars
    /\ [](run.mode = "done"
          => /\ run.unique_files = <<>> /\ run.duplicate_groups = <<>>
             /\ run.members = <<>> /\ run.group = NoHash)
    /\ [](Returned => (exit_status(stats.errors) # 0 <=> stats.errors # <<>>))

\* A run has returned with a failed move of a unique file recorded, after
\* which it still consolidated a master and linked its duplicate.
C25_Witness ==
    /\ Completed
    /\ exit_status(stats.errors) = 1
    /\ \E k \in DOMAIN stats.errors : stats.errors[k][1] = "Error consolidating"
    /\ stats.files_consolidated >= 1
    /\ stats.symlinks_created >= 1


EntriesOf(i, type) == {r \in paths : r.file_id = i /\ r.path_type = type}

\* C26: every FileRecord owns at most one PathEntry of type consolidated and
\* at most one of type symlink, and every PathEntry belongs to a FileRecord;
\* interrupted runs and runs that follow them are among the states.
C26_OnePathPerType ==
    /\ \A i \in Ids : /\ Cardinality(EntriesOf(i, "consolidated")) <= 1
                      /\ Cardinality(EntriesOf(i, "symlink")) <= 1
    /\ \A r \in paths : r.file_id \in Ids

\* A run has returned after an earlier one was killed between recording a
\* consolidated path and marking the record: the record still owns that one
\* entry, and a duplicate linked since owns one symlink entry.
C26_Witness ==
    /\ Completed
    /\ \E i \in Ids : /\ StatusOf(i) = "not_processed"
                      /\ Cardinality(EntriesOf(i, "consolidated")) = 1
    /\ \E j \in Ids : /\ StatusOf(j) = "deduplicated"
                      /\ Cardinality(EntriesOf(j, "symlink")) = 1


\* C27: a group row whose deduplicated_at is set keeps it set through every
\* operation that leaves the row in the table, reconciliations that change
\* its master or its duplicate_count included.  (No operation both deletes
\* and inserts a row, so a hash that has a row before and after a step has
\* the same row.)
C27_CompleteStaysComplete ==
    [][\A h \in Hashes :
          (GroupComplete(h) /\ h \in GroupHashes') => GroupComplete(h)']_vars

\* A complete group has been reconciled again after a third record took its
\* hash: duplicate_count is 2, the new member is not_processed, and
\* deduplicated_at is still set.
C27_Witness ==
    \E h \in Hashes :
        /\ GroupComplete(h) /\ Reconciled(h)
        /\ GroupOf(h).duplicate_count = 2
        /\ \E i \in Members(h) : StatusOf(i) = "not_processed"
                                 /\ files[i].is_duplicate


\* handle_duplicate_hash(h) as functions of the tables.
ReconciledFiles(h) ==
    IF h \in NotAHash THEN files ELSE FilesAfter(h, WritesOf(h))
ReconciledGroups(h) ==
    IF h \in NotAHash THEN groups ELSE GroupsAfter(h, WritesOf(h))

\* C28: a repository mutation applied again with the same arguments to the
\* state it has just produced changes no row and no value: after record_file
\* (upsertFile), an INSERT OR IGNORE of a path (addPath), update_file_hash
\* (setHash), handle_duplicate_hash (reconcileGroup), mark_deduplicated,
\* update_group_deduplicated, update_deduplication_statistics and
\* update_statistics (refresh), the same call on the new tables gives the
\* new tables.  Timestamps are not part of the tables here; a call that
\* changed nothing the first time is left out, being its own repetition.
C28_Idempotent ==
    [][/\ files' # files =>
             /\ \A p \in Paths :
                   UpsertFile(p) => record_file(p, SizeOf(p))' = files'
             /\ \A id \in Ids, h \in HashValues :
                   SetHash(id, h) => update_file_hash(id, h)' = files'
             /\ \A id \in Ids :
                   (id \in DOMAIN files' /\ StatusOf(id)' # StatusOf(id))
                   => mark_deduplicated(files, id, StatusOf(id))' = files'
       /\ (files' # files \/ groups' # groups) =>
             \A h \in HashValues :
                ReconcileGroup(h)
                => /\ files' = ReconciledFiles(h)
                   /\ groups' = ReconciledGroups(h)
                   /\ ReconciledFiles(h)' = files'
                   /\ ReconciledGroups(h)' = groups'
       /\ \A r \in paths' \ paths :
             record_path(r.file_id, r.path, r.path_type)' = paths'
       /\ \A h \in Hashes :
             (GroupPending(h) /\ GroupComplete(h)')
             => update_group_deduplicated(h)' = groups'
       /\ (run.mode = "groups" /\ run'.mode = "done")
             => /\ statistics' = update_deduplication_statistics(
                       stats.files_consolidated, stats.symlinks_created,
                       stats.files_deduplicated)
                /\ update_deduplication_statistics(
                       stats.files_consolidated, stats.symlinks_created,
                       stats.files_deduplicated)' = statistics'
       /\ (statistics' # statistics /\ run'.mode = "idle")
             => /\ RefreshStatistics
                /\ update_statistics' = statistics']_vars

\* Every mutation has run on a catalog with content: a group that was
\* reconciled and marked, records marked, paths recorded, counters written
\* and the statistics refreshed after them.
C28_Witness ==
    /\ run.mode = "idle"
    /\ \E h \in Hashes : GroupComplete(h) /\ Reconciled(h)
    /\ \E r \in paths : r.path_type = "symlink"
    /\ \E r \in paths : r.path_type = "consolidated"
    /\ "total_files" \in DOMAIN statistics
    /\ Persisted("files_deduplicated") >= 2


KnownPath(p) == \E i \in Ids : files[i].original_path = p

\* record_file on a known path adds no row and leaves the record's hash,
\* duplicate flag, master reference and deduplication status as they were.
KnownPathKeepsFields ==
    [][\A p \in Paths, s \in Sizes :
          (KnownPath(p) /\ RecordFile(p, s))
          => /\ Len(files') = Len(files)
             /\ \A i \in Ids :
                   /\ files'[i].original_path = files[i].original_path
                   /\ files'[i].file_hash = files[i].file_hash
                   /\ files'[i].is_duplicate = files[i].is_duplicate
                   /\ files'[i].master_file_id = files[i].master_file_id
                   /\ StatusOf(i)' = StatusOf(i)
                   /\ i # IdOfPath(p) => files'[i] = files[i]]_vars

\* C29: record_file on a path that the catalog holds adds no FileRecord,
\* returns the id of the record with that path, and leaves that record's
\* file_hash, is_duplicate, master_file_id and deduplication_status as they
\* were.
C29_UpsertReturnsExistingId ==
    [][\A p \in Paths, s \in Sizes :
          (KnownPath(p) /\ RecordFile(p, s))
          => /\ Len(files') = Len(files)
             /\ store'.returned = IdOfPath(p)
             /\ files'[IdOfPath(p)].file_hash = files[IdOfPath(p)].file_hash
             /\ files'[IdOfPath(p)].is_duplicate
                   = files[IdOfPath(p)].is_duplicate
             /\ files'[IdOfPath(p)].master_file_id
                   = files[IdOfPath(p)].master_file_id
             /\ StatusOf(IdOfPath(p))' = StatusOf(IdOfPath(p))]_vars


\* C30: when the scanner is done with a file, every hash that two or more
\* records hold has one group row, with duplicate_count one less than the
\* number of holders, and no other group row exists: none for a hash that
\* fewer than two records hold, none for a sentinel or an empty hash.
C30_GroupsReflectHashes ==
    store.scan.pc = "idle"
    => /\ \A h \in Hashes :
             /\ h \in GroupHashes <=> Cardinality(Members(h)) >= 2
             /\ h \in GroupHashes
                   => /\ Cardinality(GroupRowsOf(h)) = 1
                      /\ GroupOf(h).duplicate_count = Cardinality(Members(h)) - 1
       /\ \A k \in DOMAIN groups : groups[k].group_hash \in Hashes

\* The scanner is done with a third file of one content: the group counts
\* two duplicates.
C30_Witness ==
    /\ store.scan.pc = "idle"
    /\ Len(store.files_by_size) >= 1
    /\ \E h \in Hashes :
          /\ Cardinality(Members(h)) = 3
          /\ h \in GroupHashes
          /\ GroupOf(h).duplicate_count = 2

(***************************************************************************)
(* C31: for every file of at least HASH_MIN_SIZE_FOR_MULTI_CHUNK bytes the *)
(* fingerprint depends on the three sampled windows only: the first chunk, *)
(* the chunk around the midpoint size div 2 and the last chunk.  Two files *)
(* of equal size that agree on every byte of those windows have the same   *)
(* fingerprint, whatever their other bytes.                                *)
(***************************************************************************)
\* The windows [0, chunk), [midpoint - chunk/2, midpoint + chunk/2) and
\* [size - chunk, size), as positions counted from 1.
Windows(size) ==
    LET midpoint == size \div 2
    IN  (1..HASH_CHUNK_SIZE)
        \cup ((midpoint - HASH_CHUNK_SIZE \div 2 + 1)
                 ..(midpoint + HASH_CHUNK_SIZE \div 2))
        \cup ((size - HASH_CHUNK_SIZE + 1)..size)

AgreeOnWindows(a, b) ==
    /\ Len(a) = Len(b)
    /\ Len(a) >= HASH_MIN_SIZE_FOR_MULTI_CHUNK
    /\ \A i \in Windows(Len(a)) : a[i] = b[i]

C31_FingerprintOfWindows ==
    AgreeOnWindows(orig[1].bytes, orig[2].bytes)
        => calculate_file_hash_multi_chunk(orig[1].bytes)
               = calculate_file_hash_multi_chunk(orig[2].bytes)

\* The two files differ outside the windows in as many bytes as allowed and
\* the second one was hashed.
C31_Witness ==
    /\ AgreeOnWindows(orig[1].bytes, orig[2].bytes)
    /\ Cardinality(Edits) = MaxEdits
    /\ store.scan.file_id = 2
    /\ store.scan.hash = calculate_file_hash_multi_chunk(orig[2].bytes)

(***************************************************************************)
(* C32: the engine removes a duplicate's original file only in a state     *)
(* where the consolidated file of its group's master exists on disk, so    *)
(* that in every reachable state every symbolic link that the engine made  *)
(* leads to an existing consolidated file, and a member is replaced only   *)
(* after its master was consolidated.                                      *)
(***************************************************************************)
\* The symbolic links at original paths: the engine makes every one of them.
\* Each leads to a file of the consolidated tree.
LinksLeadToFiles ==
    \A p \in Paths : orig[p].kind = "link" => LinkTarget(p) # NoPath

\* A step of _create_symlink_for_duplicate that removes the file at the
\* original path of the member it handles starts where the master's
\* consolidated file exists.
RemovesOnlyWithMaster ==
    \A id \in Ids :
        (/\ HandlesMember \/ run' = CrashedRun
         /\ run.mode = "groups" /\ run.group # NoHash /\ run.members # <<>>
         /\ id = Head(run.members)
         /\ orig[files[id].original_path].kind = "file"
         /\ orig'[files[id].original_path].kind # "file")
        => /\ run.master_path # NoPath
           /\ CExists(run.master_path)
           /\ cdisk[CResolve(run.master_path)].kind = "file"

\* C32: every link at an original path leads to a file of the consolidated
\* tree, in every reachable state, and originals are removed only where the
\* master's consolidated file exists.
C32_LinksLead == []LinksLeadToFiles /\ [][RemovesOnlyWithMaster]_vars

\* The part of C32 that holds: the removals follow the master's move.
RemovalsFollowMaster == [][RemovesOnlyWithMaster]_vars

(***************************************************************************)
(* C33: the engine acts on the disk first and writes the catalog after.    *)
(* In every reachable state, those left by a run killed at any step        *)
(* included, a FileRecord that is deduplicated and owns a consolidated     *)
(* PathEntry has its file at that consolidated path, and a FileRecord that *)
(* owns a symlink PathEntry has a symbolic link at its original path.      *)
(***************************************************************************)
C33_DiskBeforeCatalog ==
    \A r \in paths :
        /\ (r.path_type = "consolidated"
            /\ StatusOf(r.file_id) = "deduplicated")
           => /\ r.path \in DOMAIN cdisk
              /\ cdisk[r.path] = File(files[r.file_id].original_path)
        /\ r.path_type = "symlink"
           => /\ r.path = OrigPath(files[r.file_id].original_path)
              /\ orig[files[r.file_id].original_path].kind = "link"


(***************************************************************************)
(* C34: a member of a group is skipped for depth exactly when the relative *)
(* path from its directory to the master needs more than MaxUps steps to   *)
(* a parent directory.  When a non-dry run handles a member whose original *)
(* exists, with the master's consolidated file in place, and the path      *)
(* needs MaxUps steps or fewer, the member is replaced by a symbolic link  *)
(* and marked deduplicated; it is left with the error only when the path   *)
(* needs more.                                                             *)
(***************************************************************************)
C34_SkippedOnlyBeyondLimit ==
    [][\A id \in Ids :
          (/\ HandlesMember
           /\ id = Head(run.members)
           /\ ~run.dry_run
           /\ CExists(run.master_path)
           /\ Exists(files[id].original_path))
          => \A ups \in 0..(MaxUps + 1) :
                ups = UpsToMaster(id)
                => IF ups <= MaxUps
                   THEN /\ orig'[files[id].original_path].kind = "link"
                        /\ StatusOf(id)' = "deduplicated"
                        /\ stats'.errors = stats.errors
                   ELSE /\ UNCHANGED <<orig, files>>
                        /\ stats'.errors # stats.errors]_vars


(***************************************************************************)
(* C35: every not_processed file is consolidated or linked in the end.  A  *)
(* FileRecord that became a duplicate of a group that was complete         *)
(* already, whose original file is in place and can be linked, is replaced *)
(* by a symbolic link and marked deduplicated by the next engine run that  *)
(* returns without errors: where such a run has returned, no duplicate of  *)
(* a complete group with a linkable original in place is left.             *)
(***************************************************************************)
LateJoiners ==
    {i \in Ids : /\ files[i].is_duplicate
                 /\ files[i].file_hash \in Hashes
                 /\ GroupComplete(files[i].file_hash)
                 /\ files[i].master_file_id = LowestId(files[i].file_hash)
                 /\ InPlace(i)
                 /\ Linkable(i, files[i].file_hash)}

C35_LateJoinerLinked ==
    (Completed /\ stats.errors = <<>>)
        => \A i \in LateJoiners :
              /\ StatusOf(i) = "deduplicated"
              /\ orig[files[i].original_path].kind = "link"


(***************************************************************************)
(* C36: no step of the engine leaves the place of a duplicate empty.  When *)
(* a run that is not killed handles a non-master member whose original     *)
(* path holds a file, the path holds after the step either that file or a  *)
(* symbolic link that leads to the master's consolidated file, also when   *)
(* the making of the link raises after the file was removed.               *)
(***************************************************************************)
C36_LocationNeverEmpty ==
    [][\A id \in Ids : \A p \in Paths :
          (/\ HandlesMember
           /\ id = Head(run.members)
           /\ p = files[id].original_path
           /\ orig[p].kind = "file")
          => \/ orig'[p] = orig[p]
             \/ /\ orig'[p].kind = "link"
                /\ CExists(run.master_path)
                /\ LinkTarget(p)' = CResolve(run.master_path)]_vars


(***************************************************************************)
(* C37: a dry run is a faithful preview.  Started from the same catalog    *)
(* and the same files, a dry run returns the same files_consolidated,      *)
(* symlinks_created and files_deduplicated and as many errors as the real  *)
(* run does: where a real run that followed a dry run at once has          *)
(* returned, its counters and the number of its errors are those that the  *)
(* dry run returned.                                                       *)
(***************************************************************************)
C37_DryRunPreviews ==
    (run.mode = "done" /\ run.preview # <<>>)
        => LET dry == run.preview[1]
           IN  /\ dry.files_consolidated = stats.files_consolidated
               /\ dry.symlinks_created = stats.symlinks_created
               /\ dry.files_deduplicated = stats.files_deduplicated
               /\ Len(dry.errors) = Len(stats.errors)


(***************************************************************************)
(* C38: a run that a failed pre-flight check aborts (the consolidation     *)
(* directory cannot be written, or the operator declines to go on with     *)
(* too little space) ends as a failure: the exit status of the command is  *)
(* not 0.                                                                  *)
(***************************************************************************)
C38_AbortedRunFails ==
    run.mode = "aborted" => exit_status(stats.errors) # 0


(***************************************************************************)
(* C39: at the end of a non-dry run, files_deduplicated is the number of   *)
(* FileRecords that the run took from not_processed to deduplicated and    *)
(* files_consolidated the number of files that it moved into the           *)
(* consolidated tree.  Where no run is ever killed, the first non-dry run  *)
(* that passes its checks (no counter was persisted before it) finds every *)
(* record not_processed and the consolidated tree empty: at its end the    *)
(* two counters are the number of deduplicated records and the number of   *)
(* files in the consolidated tree.                                         *)
(***************************************************************************)
FirstRunReturned == Completed /\ run.before = <<>>

C39_CountersMatchRun ==
    FirstRunReturned
        => /\ stats.files_deduplicated
                 = Cardinality({i \in Ids : StatusOf(i) = "deduplicated"})
           /\ stats.files_consolidated = Cardinality(DOMAIN cdisk)

=============================================================================
